---- MODULE Spec2Model ----
(***************************************************************************)
(* Pipeline viewport of the orchest web client (PipelineStepsOuterHolder): *)
(* the transform state of the pipeline canvas (scale factor, transform     *)
(* origin, offset, holder offsets), the wheel / centerView /               *)
(* centerPipelineOrigin operations, the resize handler and the pointer     *)
(* and file-drop handlers of the viewport.                                 *)
(*                                                                         *)
(* shellspawner (jupyter-server): the menu loop of its main thread, the    *)
(* BackgroundRequest threads it starts and the environment shells of the   *)
(* session they create and destroy.                                        *)
(*                                                                         *)
(* ImportDialog (projects view): the import status of the dialog, the      *)
(* temporary project of an import and the requests of its asynchronous     *)
(* handlers.                                                               *)
(*                                                                         *)
(* useSnapshotsApi: the snapshots list of the store and the fetchOne calls *)
(* that update it.  PipelineMoreOptionsMenu: the menu of the pipeline      *)
(* header bar and its Delete entry.                                        *)
(*                                                                         *)
(* JavaScript numbers are modelled as exact rationals <<n, d>> in lowest   *)
(* terms with d > 0; a point is a pair <<x, y>> of rationals.              *)
(***************************************************************************)
EXTENDS Integers, Sequences, FiniteSets, TLC

VARIABLES
    eventVars,            \* usePipelineEditorContext().eventVars
    pipelineCanvasState,  \* usePipelineCanvasContext().pipelineCanvasState
    pipelineOffsetRef,    \* identity of the pipelineOffset array (effect dependency)
    mouseTracker,         \* mouseTracker.current.client
    newConnection,        \* newConnection.current
    dragFile,             \* useFileManagerContext().dragFile and the validity result
    localRef,             \* localRef.current: the viewport element or null
    resizeListeners,      \* number of window "resize" listeners registered by the viewport
    viewportSize,         \* width and height of the viewport element
    canvasResizeStyle,    \* React state set by resizeCanvas
    emitted,              \* intents dispatched by the last handler, in order
    nextUuid,             \* number of uuids generated so far by uuidv4
    lastEvent,            \* the last handler that ran, with its inputs
    nEvents,              \* number of transform-changing events so far
    main,                 \* shellspawner: the main thread (position and locals of init)
    threads,              \* shellspawner: the BackgroundRequest threads, in start order
    serverShells,         \* orchest-api: the environment shells of the session
    requests,             \* shellspawner: the HTTP requests sent so far, by sender
    dialog,               \* ImportDialog: its props and React state
    backendProjects,      \* orchest-webserver: the projects, as records of uuid and path
    tasks,                \* ImportDialog: the async handler calls awaiting a response
    importLog,            \* ImportDialog: requests sent and callbacks called, in order
    dialogEvent,          \* ImportDialog: the last handler step, with what it read
    snapshotsApi,         \* useSnapshotsApi: the state of the store and its pending calls
    snapshotEvent,        \* useSnapshotsApi: the last completion, with the list it found
    moreOptionsMenu,      \* PipelineMoreOptionsMenu: the menu and the state it reads
    menuEvent             \* PipelineMoreOptionsMenu: the last handler step

viewportVars == <<eventVars, pipelineCanvasState, pipelineOffsetRef, mouseTracker,
                  newConnection, dragFile, localRef, resizeListeners, viewportSize,
                  canvasResizeStyle, emitted, nextUuid, lastEvent, nEvents>>

shellVars == <<main, threads, serverShells, requests>>

importVars == <<dialog, backendProjects, tasks, importLog, dialogEvent>>

\* the state of the other views of the web client
snapshotsVars == <<snapshotsApi, snapshotEvent>>

menuVars == <<moreOptionsMenu, menuEvent>>

clientVars == <<importVars, snapshotsVars, menuVars>>

vars == <<viewportVars, shellVars, clientVars>>

-----------------------------------------------------------------------------
(* Bounds of the model *)

MaxEvents == 3
MaxResizeEvents == 1
MaxDropEvents == 1
MaxUuid == 2
MaxFrameEvents == 1
MaxThreads == 1
MaxDialogCalls == 6
MaxFetches == 4
MaxMenuEvents == 5

-----------------------------------------------------------------------------
(* Exact rational arithmetic *)

Abs(n) == IF n < 0 THEN -n ELSE n

RECURSIVE GCD(_, _)
GCD(a, b) == IF b = 0 THEN a ELSE GCD(b, a % b)

Rat(n, d) ==
    LET g == GCD(Abs(n), Abs(d))
        s == IF d < 0 THEN -1 ELSE 1
    IN  <<(s * n) \div g, (s * d) \div g>>

Q(n) == <<n, 1>>
RAdd(a, b) ==
    LET g == GCD(a[2], b[2])
    IN  Rat(a[1] * (b[2] \div g) + b[1] * (a[2] \div g), (a[2] \div g) * b[2])
RNeg(a) == <<-a[1], a[2]>>
RSub(a, b) == RAdd(a, RNeg(b))
RMul(a, b) ==
    LET g1 == GCD(Abs(a[1]), b[2])
        g2 == GCD(Abs(b[1]), a[2])
    IN  Rat((a[1] \div g1) * (b[1] \div g2), (a[2] \div g2) * (b[2] \div g1))
RInv(a) == IF a[1] < 0 THEN <<-a[2], -a[1]>> ELSE <<a[2], a[1]>>
RDiv(a, b) == RMul(a, RInv(b))
RLe(a, b) == a[1] * b[2] <= b[1] * a[2]
RMin(a, b) == IF RLe(a, b) THEN a ELSE b
RMax(a, b) == IF RLe(a, b) THEN b ELSE a

Pt(x, y) == <<Q(x), Q(y)>>
PAdd(p, q) == <<RAdd(p[1], q[1]), RAdd(p[2], q[2])>>
PSub(p, q) == <<RSub(p[1], q[1]), RSub(p[2], q[2])>>
PMul(p, s) == <<RMul(p[1], s), RMul(p[2], s)>>

-----------------------------------------------------------------------------
(* Constants of the program *)

CANVAS_VIEW_MULTIPLE == 3
WheelDivisor == 3000
MinScaleFactor == <<1, 4>>
MaxScaleFactor == 2
DEFAULT_SCALE_FACTOR == Q(1)
INITIAL_PIPELINE_POSITION == Pt(-1, -1)
STEP_WIDTH == 190
STEP_HEIGHT == 105
getScrollLineHeight == 10

DOM_DELTA_PIXEL == 0
DOM_DELTA_LINE == 1
DOM_DELTA_PAGE == 2

\* position of the viewport element in the page (getOffset(localRef.current))
viewportOffset == Pt(10, 20)

-----------------------------------------------------------------------------
(* Inputs *)

ClientPoints == {<<100, 100>>, <<40, 70>>}
DeltaModes == {DOM_DELTA_PIXEL, DOM_DELTA_LINE, DOM_DELTA_PAGE}
DeltaYs == {-300, 0, 600}
PanDeltas == {<<-4, 3>>}
ViewportSizes == {<<800, 600>>, <<1024, 768>>}
Buttons == {0, 2}
FilePaths == {"a.py", "b.py"}
PanningStates == {"idle", "ready-to-pan", "panning"}

Environments == {<<>>,
                 <<[uuid |-> "env-1", language |-> "r", name |-> "R env"],
                   [uuid |-> "env-2", language |-> "python", name |-> "Py env"]>>}
DraggedFiles == {<<"a.py">>, <<"a.py", "b.py">>}
NoDragFile == <<>>
NoStyle == <<>>
Connections == {"connection-1", "connection-2"}
NoConnection == "none"

-----------------------------------------------------------------------------
(* Coordinate transform *)

\* scaleCorrected(value, scaleFactor): value / scaleFactor
scaleCorrected(value, scaleFactor) == RDiv(value, scaleFactor)

\* originTransformScaling(origin, scaleFactor): origin * (scaleFactor - 1)
originTransformScaling(origin, scaleFactor) ==
    PMul(origin, RSub(scaleFactor, Q(1)))

\* Page position of the top-left corner of the canvas element as rendered with
\* canvas state cs and scale s: the element is placed at (left, top) in the
\* viewport and transformed by translate(offset) scale(s) about transform-origin.
getOffsetCanvas(cs, s) ==
    PAdd(viewportOffset,
         PAdd(<<cs.pipelineStepsHolderOffsetLeft, cs.pipelineStepsHolderOffsetTop>>,
              PAdd(cs.pipelineOffset,
                   PMul(cs.pipelineOrigin, RSub(Q(1), s)))))

\* Page position at which the canvas-space point p is rendered.
ScreenOf(p, cs, s) == PAdd(getOffsetCanvas(cs, s), PMul(p, s))

\* Canvas-space point rendered at the page position c.
toCanvasSpace(c, cs, s) ==
    LET d == PSub(c, getOffsetCanvas(cs, s))
    IN  <<scaleCorrected(d[1], s), scaleCorrected(d[2], s)>>

getCurrentOrigin(cs, s) == PSub(getOffsetCanvas(cs, s), viewportOffset)

-----------------------------------------------------------------------------
(* Viewport controller *)

PipelineSetHolderOriginKeepsOffsets(cs, s, newOrigin) ==
    [cs EXCEPT !.pipelineOrigin = newOrigin]
\* pipelineSetHolderOrigin(newOrigin), called while canvas state cs and scale s
\* are rendered: re-anchors the transform origin and compensates the holder offsets.
pipelineSetHolderOrigin(cs, s, newOrigin) ==
    LET currentOrigin == getCurrentOrigin(cs, s)
        translate == originTransformScaling(newOrigin, s)
    IN  [cs EXCEPT
            !.pipelineOrigin = newOrigin,
            !.pipelineStepsHolderOffsetLeft =
                RSub(RAdd(translate[1], currentOrigin[1]), cs.pipelineOffset[1]),
            !.pipelineStepsHolderOffsetTop =
                RSub(RAdd(translate[2], currentOrigin[2]), cs.pipelineOffset[2])]

\* resetPipelineCanvas(): the offset returns to INITIAL_PIPELINE_POSITION
resetPipelineCanvas(cs) == [cs EXCEPT !.pipelineOffset = INITIAL_PIPELINE_POSITION]

\* Body of the effect that forces the origin to (0,0) in the initial position.
InitialOriginEffect(cs, s) ==
    IF /\ cs.pipelineOffset[1] = INITIAL_PIPELINE_POSITION[1]
       /\ cs.pipelineOffset[2] = INITIAL_PIPELINE_POSITION[2]
       /\ s = DEFAULT_SCALE_FACTOR
    THEN pipelineSetHolderOrigin(cs, s, Pt(0, 0))
    ELSE cs

\* The effect runs after a render in which one of its dependencies changed:
\* eventVars.scaleFactor, pipelineOffset (by identity) or pipelineSetHolderOrigin
\* (itself re-created exactly when eventVars.scaleFactor changes).
EffectDepsChanged(sOld, sNew, offsetRefChanged) ==
    sNew # sOld \/ offsetRefChanged

AfterRender(cs, sOld, sNew, offsetRefChanged) ==
    IF EffectDepsChanged(sOld, sNew, offsetRefChanged)
    THEN InitialOriginEffect(cs, sNew)
    ELSE cs

\* Math.min(Math.max(x, 0.25), 2)
ClampNoLowerBound(x) == RMin(x, Q(MaxScaleFactor))
ClampNoUpperBound(x) == RMax(x, MinScaleFactor)
clampScale(x) == RMin(RMax(x, MinScaleFactor), Q(MaxScaleFactor))

\* deltaY of the wheel handler: line and page deltas are scaled by the line height
NormalizeLineModeOnly(deltaMode, deltaY) ==
    IF deltaMode = DOM_DELTA_LINE THEN getScrollLineHeight * deltaY ELSE deltaY
normalizedDeltaY(deltaMode, deltaY) ==
    IF deltaMode = DOM_DELTA_LINE \/ deltaMode = DOM_DELTA_PAGE
    THEN getScrollLineHeight * deltaY
    ELSE deltaY

\* payload of the SET_SCALE_FACTOR intent of the wheel handler
WheelScaleAdds(current, deltaY) ==
    clampScale(RAdd(current, Rat(deltaY, WheelDivisor)))
wheelScale(current, deltaY) ==
    clampScale(RSub(current, Rat(deltaY, WheelDivisor)))

\* getMousePositionRelativeToCanvas(e), after trackMouseMovement(e.clientX, e.clientY)
getMousePositionRelativeToCanvas(client, cs, s) ==
    toCanvasSpace(<<Q(client[1]), Q(client[2])>>, cs, s)

TransformEnabled(max) == localRef = "node" /\ nEvents < max

\* onPipelineCanvasWheel(e), followed by the render it causes and its effects
onPipelineCanvasWheel(max, client, deltaMode, deltaY) ==
    /\ TransformEnabled(max)
    /\ LET s == eventVars.scaleFactor
           cs == pipelineCanvasState
           pipelineMousePosition == getMousePositionRelativeToCanvas(client, cs, s)
           cs1 == IF \/ pipelineMousePosition[1] # cs.pipelineOrigin[1]
                     \/ pipelineMousePosition[2] # cs.pipelineOrigin[2]
                  THEN pipelineSetHolderOrigin(cs, s, pipelineMousePosition)
                  ELSE cs
           payload == wheelScale(s, normalizedDeltaY(deltaMode, deltaY))
       IN  /\ mouseTracker' = client
           /\ eventVars' = [eventVars EXCEPT !.scaleFactor = payload]
           /\ pipelineCanvasState' = AfterRender(cs1, s, payload, FALSE)
           /\ emitted' = <<[type |-> "SET_SCALE_FACTOR", payload |-> payload]>>
           /\ lastEvent' = [type |-> "wheel", client |-> client,
                            deltaMode |-> deltaMode, deltaY |-> deltaY,
                            current |-> s]
    /\ nEvents' = nEvents + 1
    /\ UNCHANGED <<pipelineOffsetRef, newConnection, dragFile, localRef,
                   resizeListeners, viewportSize, canvasResizeStyle, nextUuid>>
    /\ UNCHANGED <<shellVars, clientVars>>

CenterViewKeepsScale(current) == current
\* payload of the SET_SCALE_FACTOR intent of centerView, at scale current
centerViewScale(current) == DEFAULT_SCALE_FACTOR

\* centerView(), followed by the render it causes and its effects
centerView(max) ==
    /\ TransformEnabled(max)
    /\ LET s == eventVars.scaleFactor
           cs1 == resetPipelineCanvas(pipelineCanvasState)
           payload == centerViewScale(s)
       IN  /\ eventVars' = [eventVars EXCEPT !.scaleFactor = payload]
           /\ pipelineCanvasState' =
                  AfterRender(cs1, s, payload,
                              pipelineOffsetRef # "INITIAL_PIPELINE_POSITION")
           /\ emitted' = <<[type |-> "SET_SCALE_FACTOR", payload |-> payload]>>
    /\ pipelineOffsetRef' = "INITIAL_PIPELINE_POSITION"
    /\ lastEvent' = [type |-> "centerView", current |-> eventVars.scaleFactor,
                     offset |-> pipelineCanvasState.pipelineOffset]
    /\ nEvents' = nEvents + 1
    /\ UNCHANGED <<mouseTracker, newConnection, dragFile, localRef,
                   resizeListeners, viewportSize, canvasResizeStyle, nextUuid>>
    /\ UNCHANGED <<shellVars, clientVars>>

\* centerPipelineOrigin()
centerPipelineOrigin(max) ==
    /\ TransformEnabled(max)
    /\ LET s == eventVars.scaleFactor
           cs == pipelineCanvasState
           canvasOffset == getOffsetCanvas(cs, s)
           originalX == RAdd(RSub(viewportOffset[1], canvasOffset[1]),
                             Rat(viewportSize[1], 2))
           originalY == RAdd(RSub(viewportOffset[2], canvasOffset[2]),
                             Rat(viewportSize[2], 2))
           centerOrigin == <<scaleCorrected(originalX, s), scaleCorrected(originalY, s)>>
       IN  pipelineCanvasState' = pipelineSetHolderOrigin(cs, s, centerOrigin)
    /\ emitted' = <<>>
    /\ lastEvent' = [type |-> "centerPipelineOrigin"]
    /\ nEvents' = nEvents + 1
    /\ UNCHANGED <<eventVars, pipelineOffsetRef, mouseTracker, newConnection, dragFile,
                   localRef, resizeListeners, viewportSize, canvasResizeStyle, nextUuid>>
    /\ UNCHANGED <<shellVars, clientVars>>

\* Panning: the keyboard and pointer hooks of the viewport move between the
\* panning states, and a pointer move while panning translates the canvas.
SetPanningState(p) ==
    /\ localRef = "node"
    /\ p # pipelineCanvasState.panningState
    /\ \/ p = "ready-to-pan"
       \/ p = "idle" /\ pipelineCanvasState.panningState = "ready-to-pan"
       \/ p = "panning" /\ pipelineCanvasState.panningState = "ready-to-pan"
    /\ pipelineCanvasState' = [pipelineCanvasState EXCEPT !.panningState = p]
    /\ emitted' = <<>>
    /\ lastEvent' = [type |-> "setPanningState"]
    /\ UNCHANGED <<eventVars, pipelineOffsetRef, mouseTracker, newConnection, dragFile,
                   localRef, resizeListeners, viewportSize, canvasResizeStyle,
                   nextUuid, nEvents>>
    /\ UNCHANGED <<shellVars, clientVars>>

PanCanvas(max, delta) ==
    /\ TransformEnabled(max)
    /\ pipelineCanvasState.panningState = "panning"
    /\ LET cs1 == [pipelineCanvasState EXCEPT
                      !.pipelineOffset = PAdd(@, Pt(delta[1], delta[2]))]
       IN  pipelineCanvasState' =
               AfterRender(cs1, eventVars.scaleFactor, eventVars.scaleFactor, TRUE)
    /\ pipelineOffsetRef' = "fresh"
    /\ emitted' = <<>>
    /\ lastEvent' = [type |-> "pan", delta |-> delta]
    /\ nEvents' = nEvents + 1
    /\ UNCHANGED <<eventVars, mouseTracker, newConnection, dragFile, localRef,
                   resizeListeners, viewportSize, canvasResizeStyle, nextUuid>>
    /\ UNCHANGED <<shellVars, clientVars>>

-----------------------------------------------------------------------------
(* Canvas size *)

PipelineSetHolderSizeUnguarded(ref, size, style) ==
    <<size[1] * CANVAS_VIEW_MULTIPLE, size[2] * CANVAS_VIEW_MULTIPLE>>
\* pipelineSetHolderSize(): the value of canvasResizeStyle after the call
pipelineSetHolderSize(ref, size, style) ==
    IF ref # "node" THEN style
    ELSE <<size[1] * CANVAS_VIEW_MULTIPLE, size[2] * CANVAS_VIEW_MULTIPLE>>

\* A window "resize" event: the viewport element, if any, takes its new size and
\* every registered listener runs.
WindowResize(size) ==
    /\ size # viewportSize
    /\ viewportSize' = size
    /\ canvasResizeStyle' =
           IF resizeListeners > 0
           THEN pipelineSetHolderSize(localRef, size, canvasResizeStyle)
           ELSE canvasResizeStyle
    /\ emitted' = <<>>
    /\ lastEvent' = [type |-> "resize", ref |-> localRef,
                     listeners |-> resizeListeners, style |-> canvasResizeStyle]
    /\ UNCHANGED <<eventVars, pipelineCanvasState, pipelineOffsetRef, mouseTracker,
                   newConnection, dragFile, localRef, resizeListeners, nextUuid, nEvents>>
    /\ UNCHANGED <<shellVars, clientVars>>

\* The viewport leaves the tree: its ref is detached when the removal is committed,
\* the cleanup of the resize effect runs afterwards.
Unmount ==
    /\ localRef = "node"
    /\ localRef' = "null"
    /\ emitted' = <<>>
    /\ lastEvent' = [type |-> "unmount"]
    /\ UNCHANGED <<eventVars, pipelineCanvasState, pipelineOffsetRef, mouseTracker,
                   newConnection, dragFile, resizeListeners, viewportSize,
                   canvasResizeStyle, nextUuid, nEvents>>
    /\ UNCHANGED <<shellVars, clientVars>>

\* window.addEventListener / window.removeEventListener("resize",
\* pipelineSetHolderSize): the number of registered listeners after the call
addEventListener(n) == n + 1
RemoveEventListenerOfOtherHandler(n) == n
removeEventListener(n) == n - 1

\* the cleanup of the resize effect
ResizeEffectCleanup ==
    /\ localRef = "null"
    /\ resizeListeners > 0
    /\ resizeListeners' = removeEventListener(resizeListeners)
    /\ emitted' = <<>>
    /\ lastEvent' = [type |-> "cleanup"]
    /\ UNCHANGED <<eventVars, pipelineCanvasState, pipelineOffsetRef, mouseTracker,
                   newConnection, dragFile, localRef, viewportSize,
                   canvasResizeStyle, nextUuid, nEvents>>
    /\ UNCHANGED <<shellVars, clientVars>>

\* The resize effect runs again while the viewport stays mounted (its dependency
\* pipelineSetHolderSize is a new function): cleanup, then the effect.
ResizeEffectRerun ==
    /\ localRef = "node"
    /\ lastEvent.type # "rerun"
    /\ resizeListeners' = addEventListener(removeEventListener(resizeListeners))
    /\ canvasResizeStyle' =
           pipelineSetHolderSize(localRef, viewportSize, canvasResizeStyle)
    /\ emitted' = <<>>
    /\ lastEvent' = [type |-> "rerun"]
    /\ UNCHANGED <<eventVars, pipelineCanvasState, pipelineOffsetRef, mouseTracker,
                   newConnection, dragFile, localRef, viewportSize, nextUuid, nEvents>>
    /\ UNCHANGED <<shellVars, clientVars>>

\* The viewport is mounted (again): the ref is attached, then the effects of the
\* first render run: the initial-origin effect and the resize effect.
Mount ==
    /\ localRef = "null"
    /\ resizeListeners = 0
    /\ localRef' = "node"
    /\ pipelineCanvasState' =
           InitialOriginEffect(pipelineCanvasState, eventVars.scaleFactor)
    /\ canvasResizeStyle' = pipelineSetHolderSize("node", viewportSize, NoStyle)
    /\ resizeListeners' = addEventListener(resizeListeners)
    /\ emitted' = <<>>
    /\ lastEvent' = [type |-> "mount"]
    /\ UNCHANGED <<eventVars, pipelineOffsetRef, mouseTracker, newConnection,
                   dragFile, viewportSize, nextUuid, nEvents>>
    /\ UNCHANGED <<shellVars, clientVars>>

-----------------------------------------------------------------------------
(* Collaborators of the pointer handlers *)

\* trackMouseMovement(clientX, clientY) on a pointer move
MouseMove(client) ==
    /\ localRef = "node"
    /\ client # mouseTracker
    /\ mouseTracker' = client
    /\ emitted' = <<>>
    /\ lastEvent' = [type |-> "mousemove"]
    /\ UNCHANGED <<eventVars, pipelineCanvasState, pipelineOffsetRef, newConnection,
                   dragFile, localRef, resizeListeners, viewportSize,
                   canvasResizeStyle, nextUuid, nEvents>>
    /\ UNCHANGED <<shellVars, clientVars>>

\* The file manager starts dragging files, and drops the drag state afterwards.
StartDragFile(paths) ==
    /\ localRef = "node"
    /\ dragFile = NoDragFile
    /\ dragFile' = paths
    /\ emitted' = <<>>
    /\ lastEvent' = [type |-> "dragstart"]
    /\ UNCHANGED <<eventVars, pipelineCanvasState, pipelineOffsetRef, mouseTracker,
                   newConnection, localRef, resizeListeners, viewportSize,
                   canvasResizeStyle, nextUuid, nEvents>>
    /\ UNCHANGED <<shellVars, clientVars>>

ResetDragFile ==
    /\ dragFile # NoDragFile
    /\ dragFile' = NoDragFile
    /\ emitted' = <<>>
    /\ lastEvent' = [type |-> "dragend"]
    /\ UNCHANGED <<eventVars, pipelineCanvasState, pipelineOffsetRef, mouseTracker,
                   newConnection, localRef, resizeListeners, viewportSize,
                   canvasResizeStyle, nextUuid, nEvents>>
    /\ UNCHANGED <<shellVars, clientVars>>

\* The editor selects a connection, opens a step or starts a new connection.
EditorSets(what) ==
    /\ localRef = "node"
    /\ \/ /\ what = "selectedConnection"
          /\ ~eventVars.selectedConnection
          /\ eventVars' = [eventVars EXCEPT !.selectedConnection = TRUE]
          /\ UNCHANGED newConnection
       \/ /\ what = "openedStep"
          /\ ~eventVars.openedStep
          /\ eventVars' = [eventVars EXCEPT !.openedStep = TRUE]
          /\ UNCHANGED newConnection
       \/ /\ what = "newConnection"
          /\ newConnection = NoConnection
          /\ newConnection' \in Connections
          /\ UNCHANGED eventVars
    /\ emitted' = <<>>
    /\ lastEvent' = [type |-> "editor"]
    /\ UNCHANGED <<pipelineCanvasState, pipelineOffsetRef, mouseTracker, dragFile,
                   localRef, resizeListeners, viewportSize, canvasResizeStyle,
                   nextUuid, nEvents>>
    /\ UNCHANGED <<shellVars, clientVars>>

\* The reducer of the editor, as far as the viewport reads what it writes.
RECURSIVE Reduce(_, _)
Reduce(ev, intents) ==
    IF intents = <<>> THEN ev
    ELSE LET i == Head(intents)
             ev1 == CASE i.type = "SET_SCALE_FACTOR" ->
                             [ev EXCEPT !.scaleFactor = i.payload]
                       [] i.type = "DESELECT_CONNECTION" ->
                             [ev EXCEPT !.selectedConnection = FALSE]
                       [] i.type = "CREATE_SELECTOR" ->
                             [ev EXCEPT !.stepSelector = TRUE]
                       [] i.type = "SET_STEP_SELECTOR_INACTIVE" ->
                             [ev EXCEPT !.stepSelector = FALSE]
                       [] i.type = "SET_OPENED_STEP" ->
                             [ev EXCEPT !.openedStep = FALSE]
                       [] OTHER -> ev
         IN  Reduce(ev1, Tail(intents))

-----------------------------------------------------------------------------
(* Pointer handlers and drag-and-drop intake *)

\* getOnCanvasPosition(offset): the canvas-space point under the tracked pointer,
\* moved back by offset
getOnCanvasPosition(offset, client, cs, s) ==
    PSub(toCanvasSpace(<<Q(client[1]), Q(client[2])>>, cs, s), offset)

\* useValidateFilesOnSteps(): the dragged paths split by the validity predicate
getApplicableStepFiles(dragged, valid) ==
    [allowed |-> SelectSeq(dragged, LAMBDA f : f \in valid),
     rejected |-> SelectSeq(dragged, LAMBDA f : f \notin valid)]

getFilePathForDragFile(filePath) == <<"getFilePathForDragFile", filePath>>

\* the n-th value returned by uuidv4
uuidv4(n) == n

CreateStepIntentLastEnvironment(uuid, filePath, environments, dropPosition) ==
    LET n == Len(environments)
    IN  [type |-> "CREATE_STEP",
         payload |->
            [title |-> "",
             uuid |-> uuid,
             incoming_connections |-> <<>>,
             file_path |-> getFilePathForDragFile(filePath),
             kernel |->
                [name |-> IF n > 0 /\ environments[n].language # ""
                          THEN environments[n].language ELSE "python",
                 display_name |-> IF n > 0 /\ environments[n].name # ""
                                  THEN environments[n].name ELSE "Python"],
             environment |-> IF n > 0 THEN environments[n].uuid ELSE "undefined",
             parameters |-> <<>>,
             meta_data |-> [position |-> dropPosition, hidden |-> FALSE]]]
\* the CREATE_STEP intent dispatched by createStepsWithFiles for one allowed path
CreateStepIntent(uuid, filePath, environments, dropPosition) ==
    [type |-> "CREATE_STEP",
     payload |->
        [title |-> "",
         uuid |-> uuid,
         incoming_connections |-> <<>>,
         file_path |-> getFilePathForDragFile(filePath),
         kernel |->
            [name |-> IF Len(environments) > 0 /\ environments[1].language # ""
                      THEN environments[1].language ELSE "python",
             display_name |-> IF Len(environments) > 0 /\ environments[1].name # ""
                              THEN environments[1].name ELSE "Python"],
         environment |-> IF Len(environments) > 0
                         THEN environments[1].uuid ELSE "undefined",
         parameters |-> <<>>,
         meta_data |-> [position |-> dropPosition, hidden |-> FALSE]]]

CreateStepsForAllDragged(dropPosition, dragged, valid, environments, uuids) ==
    [i \in 1..Len(dragged) |->
        CreateStepIntent(uuidv4(uuids + i), dragged[i], environments, dropPosition)]
CreateStepsWithOneUuid(dropPosition, dragged, valid, environments, uuids) ==
    LET allowed == getApplicableStepFiles(dragged, valid).allowed
    IN  [i \in 1..Len(allowed) |->
            CreateStepIntent(uuidv4(uuids + 1), allowed[i], environments, dropPosition)]
\* createStepsWithFiles(dropPosition): the CREATE_STEP intents it dispatches, when
\* uuidv4 has been called uuids times before
createStepsWithFiles(dropPosition, dragged, valid, environments, uuids) ==
    LET allowed == getApplicableStepFiles(dragged, valid).allowed
    IN  [i \in 1..Len(allowed) |->
            CreateStepIntent(uuidv4(uuids + i), allowed[i], environments, dropPosition)]

DropOffsetFullStep == <<Q(STEP_WIDTH), Q(STEP_HEIGHT)>>
\* the offset onDropFiles passes to getOnCanvasPosition
dropOffset == <<Rat(STEP_WIDTH, 2), Rat(STEP_HEIGHT, 2)>>

\* onDropFiles(): the intents it dispatches
onDropFiles(dragged, valid, environments, uuids, client, cs, s) ==
    createStepsWithFiles(getOnCanvasPosition(dropOffset, client, cs, s),
                         dragged, valid, environments, uuids)

\* onMouseDown: the condition under which the handler starts a selection
StartsSelectionOnAnyPanningState(button, panningState) == button = 0
startsSelection(button, panningState) == button = 0 /\ panningState = "idle"

OnMouseDownIntentsSelectorFirst(button, panningState, selectedConnection, offset) ==
    (IF startsSelection(button, panningState)
     THEN <<[type |-> "CREATE_SELECTOR", payload |-> offset]>> ELSE <<>>)
    \o (IF selectedConnection THEN <<[type |-> "DESELECT_CONNECTION"]>> ELSE <<>>)
\* onMouseDown: the intents it dispatches, in order; offset is getOffset(canvasRef.current)
onMouseDownIntents(button, panningState, selectedConnection, offset) ==
    (IF selectedConnection THEN <<[type |-> "DESELECT_CONNECTION"]>> ELSE <<>>)
    \o (IF startsSelection(button, panningState)
        THEN <<[type |-> "CREATE_SELECTOR", payload |-> offset]>> ELSE <<>>)

\* what a pointer-up records about the event before it
EventBefore(ev) ==
    CASE ev.type = "mousedown" ->
             IF startsSelection(ev.button, ev.panningState)
             THEN "selection-start" ELSE "mousedown"
      [] ev.type = "mouseup" ->
             IF ev.dragFile # NoDragFile THEN "drop" ELSE "mouseup"
      [] OTHER -> "other"

\* onMouseDown(e)
onMouseDown(button, client) ==
    /\ localRef = "node"
    /\ LET intents ==
               onMouseDownIntents(button, pipelineCanvasState.panningState,
                                  eventVars.selectedConnection,
                                  getOffsetCanvas(pipelineCanvasState,
                                                  eventVars.scaleFactor))
       IN  /\ mouseTracker' =
                  IF startsSelection(button, pipelineCanvasState.panningState)
                  THEN client ELSE mouseTracker
           /\ emitted' = intents
           /\ eventVars' = Reduce(eventVars, intents)
    /\ lastEvent' = [type |-> "mousedown", button |-> button, client |-> client,
                     panningState |-> pipelineCanvasState.panningState,
                     selectedConnection |-> eventVars.selectedConnection,
                     mouseTracker |-> mouseTracker]
    /\ UNCHANGED <<pipelineCanvasState, pipelineOffsetRef, newConnection, dragFile,
                   localRef, resizeListeners, viewportSize, canvasResizeStyle,
                   nextUuid, nEvents>>
    /\ UNCHANGED <<shellVars, clientVars>>

OnMouseUpIntentsAlwaysSelects(stepSelectorActive, openedStep, connection, dropped) ==
    (IF stepSelectorActive THEN <<[type |-> "SET_STEP_SELECTOR_INACTIVE"]>> ELSE <<>>)
    \o <<[type |-> "SELECT_STEPS", payload |-> [uuids |-> <<>>]]>>
    \o (IF openedStep
        THEN <<[type |-> "SET_OPENED_STEP", payload |-> "undefined"]>> ELSE <<>>)
    \o (IF connection # NoConnection
        THEN <<[type |-> "REMOVE_CONNECTION", payload |-> connection]>> ELSE <<>>)
    \o dropped
OnMouseUpIntentsRemovesWithSelector(stepSelectorActive, openedStep, connection, dropped) ==
    (IF stepSelectorActive
     THEN <<[type |-> "SET_STEP_SELECTOR_INACTIVE"]>>
          \o (IF connection # NoConnection
              THEN <<[type |-> "REMOVE_CONNECTION", payload |-> connection]>>
              ELSE <<>>)
     ELSE <<[type |-> "SELECT_STEPS", payload |-> [uuids |-> <<>>]]>>)
    \o (IF openedStep
        THEN <<[type |-> "SET_OPENED_STEP", payload |-> "undefined"]>> ELSE <<>>)
    \o dropped
OnMouseUpIntentsResetsScale(stepSelectorActive, openedStep, connection, dropped) ==
    (IF stepSelectorActive
     THEN <<[type |-> "SET_STEP_SELECTOR_INACTIVE"]>>
     ELSE <<[type |-> "SELECT_STEPS", payload |-> [uuids |-> <<>>]]>>)
    \o (IF openedStep
        THEN <<[type |-> "SET_OPENED_STEP", payload |-> "undefined"]>> ELSE <<>>)
    \o (IF connection # NoConnection
        THEN <<[type |-> "REMOVE_CONNECTION", payload |-> connection]>> ELSE <<>>)
    \o <<[type |-> "SET_SCALE_FACTOR", payload |-> DEFAULT_SCALE_FACTOR]>>
    \o dropped
OnMouseUpIntentsNoIntakeWhileSelecting(stepSelectorActive, openedStep, connection, dropped) ==
    (IF stepSelectorActive
     THEN <<[type |-> "SET_STEP_SELECTOR_INACTIVE"]>>
     ELSE <<[type |-> "SELECT_STEPS", payload |-> [uuids |-> <<>>]]>>)
    \o (IF openedStep
        THEN <<[type |-> "SET_OPENED_STEP", payload |-> "undefined"]>> ELSE <<>>)
    \o (IF connection # NoConnection
        THEN <<[type |-> "REMOVE_CONNECTION", payload |-> connection]>> ELSE <<>>)
    \o (IF stepSelectorActive THEN <<>> ELSE dropped)
\* onMouseUp: the intents it dispatches, in order; dropped are the intents of
\* onDropFiles, if it is called
onMouseUpIntents(stepSelectorActive, openedStep, connection, dropped) ==
    (IF stepSelectorActive
     THEN <<[type |-> "SET_STEP_SELECTOR_INACTIVE"]>>
     ELSE <<[type |-> "SELECT_STEPS", payload |-> [uuids |-> <<>>]]>>)
    \o (IF openedStep
        THEN <<[type |-> "SET_OPENED_STEP", payload |-> "undefined"]>> ELSE <<>>)
    \o (IF connection # NoConnection
        THEN <<[type |-> "REMOVE_CONNECTION", payload |-> connection]>> ELSE <<>>)
    \o dropped

DragFileKeptAfterPointerUp(d) == d
\* The file manager ends the drag on the pointer-up that the viewport handles.
dragFileAfterPointerUp(d) == NoDragFile

\* A pointer-up on the viewport: onMouseUp(), then the file manager's reset
onMouseUp(valid, environments) ==
    /\ localRef = "node"
    /\ LET dropped == IF dragFile # NoDragFile
                      THEN onDropFiles(dragFile, valid, environments, nextUuid,
                                       mouseTracker, pipelineCanvasState,
                                       eventVars.scaleFactor)
                      ELSE <<>>
           intents == onMouseUpIntents(eventVars.stepSelector, eventVars.openedStep,
                                       newConnection, dropped)
       IN  /\ nextUuid + Len(dropped) <= MaxUuid
           /\ nextUuid' = nextUuid + Len(dropped)
           /\ emitted' = intents
           /\ eventVars' = Reduce(eventVars, intents)
    /\ newConnection' = NoConnection
    /\ dragFile' = dragFileAfterPointerUp(dragFile)
    /\ lastEvent' = [type |-> "mouseup", dragFile |-> dragFile, valid |-> valid,
                     environments |-> environments,
                     stepSelector |-> eventVars.stepSelector,
                     openedStep |-> eventVars.openedStep,
                     newConnection |-> newConnection,
                     scaleFactor |-> eventVars.scaleFactor,
                     after |-> EventBefore(lastEvent)]
    /\ UNCHANGED <<pipelineCanvasState, pipelineOffsetRef, mouseTracker,
                   localRef, resizeListeners, viewportSize, canvasResizeStyle, nEvents>>
    /\ UNCHANGED <<shellVars, clientVars>>

-----------------------------------------------------------------------------
(* shellspawner: the menu loop of the main thread and its BackgroundRequest  *)
(* threads                                                                    *)

None == <<>>
\* uuids are sequences of characters, here of a few symbols
ShellEnvironments == {<<"env-1">>, <<"env-2">>}
\* the length of the random suffix of an environment shell uuid
RANDOM_UUID_SUFFIX_LEN == 1
\* an environment shell uuid is the environment uuid, "-" and a random suffix
ShellUuid(environment, suffix) == environment \o <<"-", suffix>>
\* the suffix the orchest-api gives to the shell requested by the t-th thread
SuffixOfThread(t) == <<"t1", "t2", "t3">>[t]
InitialShells == {{}, {ShellUuid(<<"env-1">>, "s1")},
                  {ShellUuid(<<"env-1">>, "s1"), ShellUuid(<<"env-2">>, "s2")}}
\* every environment shell uuid of a run
AllShells == UNION InitialShells \cup
             {ShellUuid(environment, SuffixOfThread(t)) :
                  environment \in ShellEnvironments, t \in 1..3}
Actions == {"CONNECT", "START", "RESTART", "TERMINATE", "EXIT", "NONE"}
ReturnCodes == {0, 255}

\* show_loader: timeout (seconds) and speed (seconds per poll)
LoaderTimeout == 30
LoaderSpeed == <<1, 4>>

EnvironmentUuidKeepsDash(environment_shell_uuid) ==
    SubSeq(environment_shell_uuid, 1,
           Len(environment_shell_uuid) - RANDOM_UUID_SUFFIX_LEN)
\* environment_shell_uuid[: -(RANDOM_UUID_SUFFIX_LEN + 1)]
environment_shell_uuid_to_environment_uuid(environment_shell_uuid) ==
    SubSeq(environment_shell_uuid, 1,
           Len(environment_shell_uuid) - (RANDOM_UUID_SUFFIX_LEN + 1))

Request(method, path, by) == [method |-> method, path |-> path, by |-> by]

\* the thread that spawn_environment_shell started last
CurrentThread == Len(threads)

\* a BackgroundRequest thread that has been started and has not ended
ThreadAlive(t) == threads[t].state \in {"started", "returned"}

\* the main thread enters init(); autoconnect is True only for the call at startup
EnterInit == [main EXCEPT !.pc = "init", !.action = "EXIT", !.auto_chosen = FALSE,
                          !.choice = None, !.observed_ready = FALSE]

\* init(autoconnect): get_environments(), get_environment_shells() and the choice
\* of the action
init ==
    /\ main.pc = "init"
    /\ LET environment_shells == serverShells
           n == Cardinality(environment_shells)
       IN  main' =
               [main EXCEPT
                   !.environment_shells = environment_shells,
                   !.auto_chosen = (n = 0),
                   !.action = IF n = 0 THEN "START"
                              ELSE IF n > 1 /\ main.autoconnect THEN "CONNECT"
                              ELSE "EXIT",
                   !.environment_shell =
                       IF n = 1 /\ main.autoconnect
                       THEN CHOOSE shell \in environment_shells : TRUE
                       ELSE None,
                   !.autoconnect = FALSE,
                   !.pc = IF n = 0 THEN "choose_environment"
                          ELSE IF n = 1 /\ main.autoconnect THEN "connect"
                          ELSE IF n > 1 /\ main.autoconnect
                          THEN "choose_existing_environment_shell"
                          ELSE "choose_action"]
    /\ requests' = requests \cup
           {Request("GET", "/store/environments/", "main"),
            Request("GET", "/environment-shells/", "main")}
    /\ UNCHANGED <<threads, serverShells>>
    /\ UNCHANGED <<viewportVars, clientVars>>

\* choose_action(): the option typed, NONE when Ctrl+C is typed
choose_action(action) ==
    /\ main.pc = "choose_action"
    /\ main' = [main EXCEPT
                   !.action = action,
                   !.pc = CASE action \in {"NONE", "EXIT"} -> "quit"
                            [] action = "START" -> "choose_environment"
                            [] OTHER -> "choose_existing_environment_shell"]
    /\ UNCHANGED <<threads, serverShells, requests>>
    /\ UNCHANGED <<viewportVars, clientVars>>

\* choose_environment(environments) in the START branch: the environment typed,
\* None when Ctrl+C is typed
choose_environment(environment) ==
    /\ main.pc = "choose_environment"
    /\ main' = IF environment # None
               THEN [main EXCEPT !.choice = environment,
                                 !.pc = "spawn_environment_shell"]
               ELSE IF ~main.auto_chosen THEN EnterInit
               ELSE [main EXCEPT !.pc = "quit"]
    /\ UNCHANGED <<threads, serverShells, requests>>
    /\ UNCHANGED <<viewportVars, clientVars>>

\* choose_existing_environment_shell(...) in the CONNECT, RESTART and TERMINATE
\* branches: the shell typed, None when Ctrl+C is typed
choose_existing_environment_shell(environment_shell) ==
    /\ main.pc = "choose_existing_environment_shell"
    /\ environment_shell \in main.environment_shells \cup {None}
    /\ main' = IF environment_shell = None THEN EnterInit
               ELSE IF main.action = "CONNECT"
               THEN [main EXCEPT !.environment_shell = environment_shell,
                                 !.pc = "connect"]
               ELSE [main EXCEPT !.choice = environment_shell,
                                 !.environment_shell = environment_shell,
                                 !.pc = "stop_environment_shell"]
    /\ UNCHANGED <<threads, serverShells, requests>>
    /\ UNCHANGED <<viewportVars, clientVars>>

\* stop_environment_shell(environment_shell["uuid"], environments) in the RESTART
\* and TERMINATE branches: the DELETE request, sent by the main thread
stop_environment_shell ==
    /\ main.pc = "stop_environment_shell"
    /\ serverShells' = serverShells \ {main.choice}
    /\ requests' = requests \cup {Request("DELETE", "/environment-shells/", "main")}
    /\ main' = IF main.action = "RESTART"
               THEN [main EXCEPT
                        !.choice =
                            environment_shell_uuid_to_environment_uuid(main.choice),
                        !.pc = "spawn_environment_shell"]
               ELSE EnterInit
    /\ UNCHANGED threads
    /\ UNCHANGED <<viewportVars, clientVars>>

\* spawn_environment_shell(environment): t = BackgroundRequest(...); t.start()
spawn_environment_shell ==
    /\ main.pc = "spawn_environment_shell"
    /\ Len(threads) < MaxThreads
    /\ threads' = Append(threads,
                         [environment |-> main.choice, state |-> "started",
                          request_ready |-> FALSE, request_result |-> None,
                          loader |-> "polling"])
    /\ main' = [main EXCEPT !.pc = "show_loader", !.waited = Q(0)]
    /\ UNCHANGED <<serverShells, requests>>
    /\ UNCHANGED <<viewportVars, clientVars>>

LoaderReturnsAtOnce(request_ready, waited) == FALSE
LoaderIgnoresTimeout(request_ready, waited) == ~request_ready
\* show_loader: the condition of its while loop
loaderContinues(request_ready, waited) ==
    ~request_ready /\ ~RLe(Q(LoaderTimeout), waited)

\* show_loader(lambda x: x.request_ready, [t], "Starting shell"): one evaluation
\* of the loop condition, then either a sleep of one poll or the end of the loop;
\* the thread record keeps whether the loader ended with the time-out warning,
\* observed_ready the value of request_ready that the last evaluation read
show_loader ==
    /\ main.pc = "show_loader"
    /\ LET t == threads[CurrentThread]
       IN  IF loaderContinues(t.request_ready, main.waited)
           THEN /\ main' = [main EXCEPT !.waited = RAdd(@, LoaderSpeed)]
                /\ UNCHANGED threads
           ELSE /\ main' = [main EXCEPT !.pc = "return_request_result",
                                        !.observed_ready = t.request_ready]
                /\ threads' = [threads EXCEPT ![CurrentThread].loader =
                                  IF RLe(Q(LoaderTimeout), main.waited)
                                  THEN "timed out" ELSE "ready"]
    /\ UNCHANGED <<serverShells, requests>>
    /\ UNCHANGED <<viewportVars, clientVars>>

\* spawn_environment_shell: return t.request_result, and what init does with it
return_request_result ==
    /\ main.pc = "return_request_result"
    /\ LET environment_shell == threads[CurrentThread].request_result
       IN  main' = IF environment_shell = None
                   THEN EnterInit
                   ELSE [main EXCEPT !.environment_shell = environment_shell,
                                     !.pc = "connect"]
    /\ UNCHANGED <<threads, serverShells, requests>>
    /\ UNCHANGED <<viewportVars, clientVars>>

\* connect(environment_shell, environments): subprocess.run of the ssh command
connect ==
    /\ main.pc = "connect"
    /\ main' = [main EXCEPT !.pc = "subprocess.run"]
    /\ UNCHANGED <<threads, serverShells, requests>>
    /\ UNCHANGED <<viewportVars, clientVars>>

\* the ssh session ends with a return code; connect enters init again
SshEnds(returncode) ==
    /\ main.pc = "subprocess.run"
    /\ main' = EnterInit
    /\ UNCHANGED <<threads, serverShells, requests>>
    /\ UNCHANGED <<viewportVars, clientVars>>

\* request.urlopen raises (URLError, HTTPError) in get_environments or
\* get_environment_shells of init, or in stop_environment_shell: nothing on the
\* main thread catches it, and the interpreter exits with a traceback
UrlopenRaises ==
    /\ main.pc \in {"init", "stop_environment_shell"}
    /\ main' = [main EXCEPT !.pc = "exited", !.exit = "uncaught exception"]
    /\ requests' = requests \cup
           {IF main.pc = "init"
            THEN Request("GET", "/store/environments/", "main")
            ELSE Request("DELETE", "/environment-shells/", "main")}
    /\ UNCHANGED <<threads, serverShells>>
    /\ UNCHANGED <<viewportVars, clientVars>>

\* quit(): print_jupyter_warning(); sys.exit(0)
quit ==
    /\ main.pc = "quit"
    /\ main' = [main EXCEPT !.pc = "exited", !.jupyter_warning = TRUE,
                            !.exit = "sys.exit(0)"]
    /\ UNCHANGED <<threads, serverShells, requests>>
    /\ UNCHANGED <<viewportVars, clientVars>>

\* BackgroundRequest.run, line 47: _spawn_environment_shell(environment) returns
\* the shell the orchest-api created, and request_result holds it
BackgroundRequestResult(t) ==
    /\ t \in 1..Len(threads)
    /\ threads[t].state = "started"
    /\ LET environment_shell == ShellUuid(threads[t].environment, SuffixOfThread(t))
       IN  /\ serverShells' = serverShells \cup {environment_shell}
           /\ threads' = [threads EXCEPT ![t].request_result = environment_shell,
                                         ![t].state = "returned"]
    /\ requests' = requests \cup
           {Request("GET", "/async/projects/", "BackgroundRequest"),
            Request("POST", "/environment-shells/", "BackgroundRequest")}
    /\ UNCHANGED main
    /\ UNCHANGED <<viewportVars, clientVars>>

\* BackgroundRequest.run, line 48: request_ready = True, and the thread ends
BackgroundRequestReady(t) ==
    /\ t \in 1..Len(threads)
    /\ threads[t].state = "returned"
    /\ threads' = [threads EXCEPT ![t].request_ready = TRUE, ![t].state = "ended"]
    /\ UNCHANGED <<main, serverShells, requests>>
    /\ UNCHANGED <<viewportVars, clientVars>>

\* BackgroundRequest.run: a request of _spawn_environment_shell raises, and the
\* thread ends without a result
BackgroundRequestRaises(t) ==
    /\ t \in 1..Len(threads)
    /\ threads[t].state = "started"
    /\ threads' = [threads EXCEPT ![t].state = "raised"]
    /\ requests' = requests \cup
           {Request("GET", "/async/projects/", "BackgroundRequest")}
    /\ UNCHANGED <<main, serverShells>>
    /\ UNCHANGED <<viewportVars, clientVars>>

-----------------------------------------------------------------------------
(* ImportDialog: the import status, the temporary project and the handlers   *)

ImportStatuses ==
    {"READY", "IMPORTING", "UPLOADING", "FILES_STORED", "SAVING_PROJECT_NAME"}

\* the value of uuidv4() at the n-th opening of the dialog
TempProjectName(n) == <<"temp-1", "temp-2", "temp-3", "temp-4", "temp-5", "temp-6">>[n]
\* the uuid the backend gives to the project created with path TempProjectName(n)
ProjectUuid(n) ==
    <<"project-1", "project-2", "project-3", "project-4", "project-5", "project-6">>[n]
\* the number of openings of the dialog a run may have
TempIndices == 1..6
\* a project that exists before the dialog is opened
ExistingProject == [uuid |-> "project-0", path |-> "existing"]
\* git repository urls, as path segments
ImportUrls == {<<"github.com", "org", "repo">>, <<"github.com", "existing">>}
\* names typed into the project name field
ProjectNames == {"renamed", "existing", ""}
\* result.status of the background task of a git import; "undefined" is no result
GitImportResults == {"undefined", "FAILURE", "SUCCESS"}
\* what the parent does in onImportComplete: leave the dialog as it is, close it
\* (open = false) or navigate to the new project (the dialog is unmounted)
ParentReactions == {"stays", "closes", "navigates"}

\* importUrl.match(/\/([^\/]+)\/?$/): the last path segment
getProjectNameFromUrl(importUrl) ==
    IF Len(importUrl) > 0 THEN importUrl[Len(importUrl)] ELSE ""

validProjectName(projectName) == projectName # ""

\* projectNameValidation.error
projectNameValidation(importStatus, projects, projectName) ==
    IF importStatus \in {"SAVING_PROJECT_NAME", "READY"} THEN FALSE
    ELSE IF projectName \in {p.path : p \in projects} THEN TRUE
    ELSE ~validProjectName(projectName)

isAllowedToClose(importStatus) == importStatus = "READY"
isShowingCancelButton(importStatus, newProjectUuid) ==
    isAllowedToClose(importStatus) \/ newProjectUuid # ""

\* a state update of the dialog; an unmounted component keeps no state
SetState(d) == IF dialog.mounted THEN d ELSE dialog

\* reset()
reset(d) == [d EXCEPT !.projectName = "", !.importStatus = "READY"]
\* onClose() of the parent
onClose(d) == [d EXCEPT !.open = FALSE]

Task(fn, at, uuid, name) == [fn |-> fn, at |-> at, uuid |-> uuid, name |-> name]
Entry(type, uuid, name) == [type |-> type, uuid |-> uuid, name |-> name]

\* a handler called by the user counts against the bound of the run
UserCalls(max) ==
    /\ dialog.mounted
    /\ dialog.calls < max
UserCalled(d) == [d EXCEPT !.calls = @ + 1]

\* the parent opens the dialog: the effect on `open` draws a temporary name
OpenDialog(max) ==
    /\ UserCalls(max)
    /\ ~dialog.open
    /\ dialog.opened + 1 \in TempIndices
    /\ dialog' = UserCalled([dialog EXCEPT !.open = TRUE, !.opened = @ + 1,
                                !.tempProjectName = TempProjectName(dialog.opened + 1)])
    /\ dialogEvent' = [type |-> "open"]
    /\ UNCHANGED <<backendProjects, tasks, importLog>>
    /\ UNCHANGED <<viewportVars, shellVars, snapshotsVars, menuVars>>

\* onChange of the project name field
setProjectName(name) ==
    /\ dialog.mounted /\ dialog.open
    /\ dialog.importStatus \notin {"READY", "SAVING_PROJECT_NAME"}
    /\ name # dialog.projectName
    /\ dialog' = [dialog EXCEPT !.projectName = name]
    /\ dialogEvent' = [type |-> "setProjectName"]
    /\ UNCHANGED <<backendProjects, tasks, importLog>>
    /\ UNCHANGED <<viewportVars, shellVars, snapshotsVars, menuVars>>

\* startImportGitRepo(): submit of the import form, rendered while READY
startImportGitRepo(max, importUrl) ==
    /\ UserCalls(max)
    /\ dialog.open
    /\ dialog.importStatus = "READY"
    /\ dialog' = UserCalled([dialog EXCEPT
                                !.importStatus = "IMPORTING",
                                !.projectName = getProjectNameFromUrl(importUrl)])
    /\ tasks' = tasks \cup {Task("importGitRepo", "import", "", dialog.tempProjectName)}
    /\ dialogEvent' = [type |-> "startImportGitRepo"]
    /\ UNCHANGED <<backendProjects, importLog>>
    /\ UNCHANGED <<viewportVars, shellVars, snapshotsVars, menuVars>>

StatusAfterGitImportIgnoresFailure(status, importStatus) ==
    CASE status = "undefined" -> "READY"
      [] status = "SUCCESS" -> "FILES_STORED"
      [] OTHER -> importStatus
\* onFinishedImportingGitRepo: the import status it sets for a result
statusAfterGitImport(status, importStatus) ==
    CASE status = "undefined" -> "READY"
      [] status = "FAILURE" -> "READY"
      [] status = "SUCCESS" -> "FILES_STORED"
      [] OTHER -> importStatus

\* onFinishedImportingGitRepo(result), up to its await
onFinishedImportingGitRepo(status) ==
    \E task \in tasks :
        /\ task.fn = "importGitRepo"
        /\ dialog' = SetState([dialog EXCEPT !.importStatus =
                                   statusAfterGitImport(status, dialog.importStatus)])
        /\ tasks' = (tasks \ {task}) \cup
                    (IF status = "SUCCESS"
                     THEN {Task("onFinishedImportingGitRepo", "fetch", "", task.name)}
                     ELSE {})
        /\ dialogEvent' = [type |-> "onFinishedImportingGitRepo", status |-> status,
                           newProjectUuid |-> dialog.newProjectUuid,
                           mounted |-> dialog.mounted]
        /\ UNCHANGED <<backendProjects, importLog>>
        /\ UNCHANGED <<viewportVars, shellVars, snapshotsVars, menuVars>>

\* the index n of a temporary name TempProjectName(n)
TempIndex(name) == CHOOSE n \in TempIndices : TempProjectName(n) = name

\* (fetchedProjects || []).find((project) => project.path === result.result)
foundProject(fetchedProjects, path) == {p \in fetchedProjects : p.path = path}

\* onFinishedImportingGitRepo, after `await fetcher("/async/projects")`: the
\* request fails, or it answers with the projects of the backend, which has
\* discovered the imported project or not yet
onFinishedFetch(outcome) ==
    \E task \in tasks :
        /\ task.fn = "onFinishedImportingGitRepo"
        /\ LET discovered ==
                   IF outcome = "discovered"
                      /\ \A p \in backendProjects : p.path # task.name
                   THEN {[uuid |-> ProjectUuid(TempIndex(task.name)),
                          path |-> task.name]}
                   ELSE {}
               fetchedProjects == IF outcome = "rejected" THEN {}
                                  ELSE backendProjects \cup discovered
               found == foundProject(fetchedProjects, task.name)
           IN  /\ backendProjects' = backendProjects \cup discovered
               /\ dialog' = IF found # {}
                            THEN SetState([dialog EXCEPT !.newProjectUuid =
                                               (CHOOSE p \in found : TRUE).uuid])
                            ELSE dialog
               /\ dialogEvent' = [type |-> "onFinishedFetch", outcome |-> outcome,
                                  fetchedProjects |-> fetchedProjects,
                                  result |-> task.name,
                                  newProjectUuid |-> dialog.newProjectUuid,
                                  mounted |-> dialog.mounted]
        /\ tasks' = tasks \ {task}
        /\ UNCHANGED importLog
        /\ UNCHANGED <<viewportVars, shellVars, snapshotsVars, menuVars>>

\* uploadFilesAndSetImportStatus(files): files dropped on or browsed from the
\* drop zone, rendered while READY
uploadFilesAndSetImportStatus(max) ==
    /\ UserCalls(max)
    /\ dialog.open
    /\ dialog.importStatus = "READY"
    /\ IF dialog.tempProjectName = ""
       THEN /\ dialog' = UserCalled(dialog)
            /\ UNCHANGED tasks
       ELSE /\ dialog' = UserCalled([dialog EXCEPT !.importStatus = "UPLOADING"])
            /\ tasks' = tasks \cup
                        {Task("uploadFiles", "POST", "", dialog.tempProjectName)}
    /\ dialogEvent' = [type |-> "uploadFilesAndSetImportStatus"]
    /\ UNCHANGED <<backendProjects, importLog>>
    /\ UNCHANGED <<viewportVars, shellVars, snapshotsVars, menuVars>>

\* createProjectAndUploadFiles: the response to POST /async/projects; a failed
\* request rejects the promise of uploadFilesAndSetImportStatus, which nothing
\* catches
createProject(ok) ==
    \E task \in tasks :
        /\ task.fn = "uploadFiles" /\ task.at = "POST"
        /\ ok => \A p \in backendProjects : p.path # task.name
        /\ LET project_uuid == ProjectUuid(TempIndex(task.name))
           IN  IF ok
               THEN /\ backendProjects' = backendProjects \cup
                            {[uuid |-> project_uuid, path |-> task.name]}
                    /\ tasks' = (tasks \ {task}) \cup
                            {Task("uploadFiles", "upload", project_uuid, task.name)}
               ELSE /\ tasks' = tasks \ {task}
                    /\ UNCHANGED backendProjects
        /\ dialogEvent' = [type |-> "createProject", ok |-> ok]
        /\ UNCHANGED <<dialog, importLog>>
        /\ UNCHANGED <<viewportVars, shellVars, snapshotsVars, menuVars>>

\* createProjectAndUploadFiles: `await Promise.all(...)` of the file uploads,
\* then the rest of uploadFilesAndSetImportStatus
uploadFiles(ok) ==
    \E task \in tasks :
        /\ task.fn = "uploadFiles" /\ task.at = "upload"
        /\ dialog' = IF ok
                     THEN SetState([dialog EXCEPT !.importStatus = "FILES_STORED",
                                                  !.newProjectUuid = task.uuid,
                                                  !.projectName = ""])
                     ELSE dialog
        /\ tasks' = tasks \ {task}
        /\ dialogEvent' = [type |-> "uploadFiles", ok |-> ok]
        /\ UNCHANGED <<backendProjects, importLog>>
        /\ UNCHANGED <<viewportVars, shellVars, snapshotsVars, menuVars>>

SendsRenameWithoutValidation(newProjectUuid, validationError) == newProjectUuid # ""
\* saveProjectName: whether it goes past its first line
sendsRename(newProjectUuid, validationError) ==
    ~(newProjectUuid = "" \/ validationError)

\* saveProjectName(), up to its first await: submit of the project name form,
\* which can be saved once the files are stored
saveProjectName(max) ==
    /\ UserCalls(max)
    /\ dialog.open
    /\ dialog.importStatus = "FILES_STORED"
    /\ LET error == projectNameValidation(dialog.importStatus, dialog.projects,
                                          dialog.projectName)
           sends == sendsRename(dialog.newProjectUuid, error)
       IN  /\ IF sends
              THEN /\ dialog' = UserCalled([dialog EXCEPT
                                     !.importStatus = "SAVING_PROJECT_NAME"])
                   /\ tasks' = tasks \cup {Task("saveProjectName", "PUT",
                                                dialog.newProjectUuid,
                                                dialog.projectName)}
                   /\ importLog' = Append(importLog,
                                          Entry("PUT", dialog.newProjectUuid,
                                                dialog.projectName))
              ELSE /\ dialog' = UserCalled(dialog)
                   /\ UNCHANGED <<tasks, importLog>>
           /\ dialogEvent' = [type |-> "saveProjectName", sends |-> sends,
                              error |-> error,
                              newProjectUuid |-> dialog.newProjectUuid]
    /\ UNCHANGED backendProjects
    /\ UNCHANGED <<viewportVars, shellVars, snapshotsVars, menuVars>>

\* saveProjectName: the response to PUT /async/projects/<uuid>; the backend
\* renames a project it has, to a path that is free
RenameProject(ok) ==
    \E task \in tasks :
        /\ task.fn = "saveProjectName" /\ task.at = "PUT"
        /\ ok => /\ \E p \in backendProjects : p.uuid = task.uuid
                 /\ \A p \in backendProjects : p.path # task.name
        /\ IF ok
           THEN /\ backendProjects' =
                       {IF p.uuid = task.uuid THEN [p EXCEPT !.path = task.name] ELSE p :
                            p \in backendProjects}
                /\ tasks' = (tasks \ {task}) \cup
                            {Task("saveProjectName", "fetchProjects",
                                  task.uuid, task.name)}
                /\ importLog' = Append(importLog, Entry("renamed", task.uuid, task.name))
                /\ UNCHANGED dialog
           ELSE /\ dialog' = SetState([dialog EXCEPT !.importStatus = "FILES_STORED"])
                /\ tasks' = tasks \ {task}
                /\ UNCHANGED <<backendProjects, importLog>>
        /\ dialogEvent' = [type |-> "RenameProject", ok |-> ok,
                           uuid |-> task.uuid, name |-> task.name,
                           mounted |-> dialog.mounted,
                           log |-> Len(importLog)]
        /\ UNCHANGED <<viewportVars, shellVars, snapshotsVars, menuVars>>

\* saveProjectName, after `await fetchProjects()`: onImportComplete, to which the
\* parent reacts, and reset(); or the catch block
FetchProjects(ok, reaction) ==
    \E task \in tasks :
        /\ task.fn = "saveProjectName" /\ task.at = "fetchProjects"
        /\ ~ok => reaction = "stays"
        /\ IF ok
           THEN /\ dialog' =
                       LET d == reset([dialog EXCEPT !.projects = backendProjects])
                       IN  SetState(CASE reaction = "closes" -> onClose(d)
                                      [] reaction = "navigates" ->
                                             [d EXCEPT !.mounted = FALSE]
                                      [] OTHER -> d)
                /\ importLog' =
                       Append(Append(importLog,
                                     Entry("fetchProjects", task.uuid, task.name)),
                              Entry("onImportComplete", task.uuid, task.name))
           ELSE /\ dialog' = SetState([dialog EXCEPT !.importStatus = "FILES_STORED"])
                /\ UNCHANGED importLog
        /\ tasks' = tasks \ {task}
        /\ dialogEvent' = [type |-> "FetchProjects", ok |-> ok,
                           uuid |-> task.uuid, name |-> task.name,
                           mounted |-> dialog.mounted,
                           log |-> Len(importLog)]
        /\ UNCHANGED backendProjects
        /\ UNCHANGED <<viewportVars, shellVars, snapshotsVars, menuVars>>

\* closeDialog(), up to its await: Dialog onClose while isAllowedToClose, or
\* the Cancel button while isShowingCancelButton
closeDialog(max) ==
    /\ UserCalls(max)
    /\ dialog.open
    /\ isShowingCancelButton(dialog.importStatus, dialog.newProjectUuid)
    /\ IF dialog.newProjectUuid # ""
       THEN /\ dialog' = UserCalled(dialog)
            /\ tasks' = tasks \cup
                        {Task("closeDialog", "DELETE", dialog.newProjectUuid, "")}
            /\ importLog' = Append(importLog,
                                   Entry("DELETE", dialog.newProjectUuid, ""))
       ELSE /\ dialog' = UserCalled(onClose(reset(dialog)))
            /\ UNCHANGED <<tasks, importLog>>
    /\ dialogEvent' = [type |-> "closeDialog",
                       newProjectUuid |-> dialog.newProjectUuid,
                       importStatus |-> dialog.importStatus]
    /\ UNCHANGED backendProjects
    /\ UNCHANGED <<viewportVars, shellVars, snapshotsVars, menuVars>>

\* closeDialog, after `await fetcher("/async/projects", DELETE)`: a failure is
\* logged to the console; reset() and onClose() follow either way
DeleteProject(ok) ==
    \E task \in tasks :
        /\ task.fn = "closeDialog"
        /\ backendProjects' = IF ok
                              THEN {p \in backendProjects : p.uuid # task.uuid}
                              ELSE backendProjects
        /\ dialog' = SetState(onClose(reset(dialog)))
        /\ tasks' = tasks \ {task}
        /\ dialogEvent' = [type |-> "DeleteProject", ok |-> ok, uuid |-> task.uuid]
        /\ UNCHANGED importLog
        /\ UNCHANGED <<viewportVars, shellVars, snapshotsVars, menuVars>>

-----------------------------------------------------------------------------
(* useSnapshotsApi: the snapshots store *)

SnapshotUuids == {"snapshot-1", "snapshot-2", "snapshot-3"}
\* the data of a snapshot as the backend answers it, which changes over time
SnapshotVersions == {1, 2}
SnapshotData(uuid, version) == [uuid |-> uuid, version |-> version]

\* const { snapshots = [] } = get()
SnapshotsOrEmpty(state) == IF state.defined THEN state.snapshots ELSE <<>>

ReplaceOrAddAlwaysAdds(snapshots, newSnapshot) == Append(snapshots, newSnapshot)
\* replaceOrAddSnapshot(newSnapshot), on the snapshots that get() returns
replaceOrAddSnapshot(snapshots, newSnapshot) ==
    IF ~\E i \in 1..Len(snapshots) : snapshots[i].uuid = newSnapshot.uuid
    THEN Append(snapshots, newSnapshot)
    ELSE [i \in 1..Len(snapshots) |->
             IF snapshots[i].uuid = newSnapshot.uuid THEN newSnapshot ELSE snapshots[i]]

\* fetchOne(snapshotUuid): memoizeFor(1000, ...) returns the promise of an earlier
\* call with the same argument while it holds one, and calls the function
\* otherwise
fetchOne(max, snapshotUuid, memoized) ==
    /\ snapshotsApi.created
    /\ snapshotsApi.calls < max
    /\ memoized =>
           \/ \E call \in snapshotsApi.pending : call.snapshotUuid = snapshotUuid
           \/ \E i \in 1..Len(snapshotsApi.snapshots) :
                  snapshotsApi.snapshots[i].uuid = snapshotUuid
    /\ snapshotsApi' =
           [snapshotsApi EXCEPT
               !.calls = @ + 1,
               !.pending = IF memoized THEN @
                           ELSE @ \cup {[snapshotUuid |-> snapshotUuid,
                                         call |-> snapshotsApi.calls + 1]}]
    /\ snapshotEvent' = [type |-> "fetchOne", snapshotUuid |-> snapshotUuid]
    /\ UNCHANGED <<viewportVars, shellVars, importVars, menuVars>>

\* fetchOne, after `await snapshotsApi.fetchOne(snapshotUuid)` has resolved:
\* set({ snapshots: replaceOrAddSnapshot(snapshot) })
fetchOneResolves(version) ==
    \E call \in snapshotsApi.pending :
        LET snapshot == SnapshotData(call.snapshotUuid, version)
            snapshots == SnapshotsOrEmpty(snapshotsApi)
        IN  /\ snapshotsApi' =
                   [snapshotsApi EXCEPT
                       !.defined = TRUE,
                       !.snapshots = replaceOrAddSnapshot(snapshots, snapshot),
                       !.pending = @ \ {call}]
            /\ snapshotEvent' = [type |-> "resolved", snapshot |-> snapshot,
                                 snapshots |-> snapshots,
                                 pending |-> Cardinality(snapshotsApi.pending)]
            /\ UNCHANGED <<viewportVars, shellVars, importVars, menuVars>>

\* fetchOne, after `await snapshotsApi.fetchOne(snapshotUuid)` has rejected:
\* the store is not written
fetchOneRejects ==
    \E call \in snapshotsApi.pending :
        /\ snapshotsApi' = [snapshotsApi EXCEPT !.pending = @ \ {call}]
        /\ snapshotEvent' = [type |-> "rejected", snapshotUuid |-> call.snapshotUuid]
        /\ UNCHANGED <<viewportVars, shellVars, importVars, menuVars>>

-----------------------------------------------------------------------------
(* PipelineMoreOptionsMenu: the Delete entry of the pipeline header bar *)

\* "" stands for a project uuid or a pipeline that is undefined
MenuProjectUuids == {"", "project-1"}
ProjectPipelines == <<"pipeline-1", "pipeline-2">>
MenuPipelines == {""} \cup {ProjectPipelines[i] : i \in 1..Len(ProjectPipelines)}

NoConfirm == [open |-> FALSE, projectUuid |-> "", pipelineUuid |-> ""]

\* isOpen = hasValue(anchorElement)
isOpen(menu) == menu.anchorElement

\* <MenuItem disabled={isReadOnly || !hasValue(pipeline)}>
deleteDisabled(menu) == menu.isReadOnly \/ menu.pipeline = ""

ReturnsEarlyIgnoresProjectUuid(isReadOnly, projectUuid, pipeline) ==
    isReadOnly \/ pipeline = ""
\* if (isReadOnly || !projectUuid || !pipeline) return;
returnsEarly(isReadOnly, projectUuid, pipeline) ==
    isReadOnly \/ projectUuid = "" \/ pipeline = ""

\* (current.pipelines || []).filter((currentPipeline) => currentPipeline.uuid !== pipeline.uuid)
pipelinesWithout(pipelines, pipelineUuid) ==
    SelectSeq(pipelines, LAMBDA currentPipeline : currentPipeline # pipelineUuid)

\* a click, a key or a change of context while the header bar is rendered
MenuStep(max, menu) ==
    /\ moreOptionsMenu.rendered
    /\ moreOptionsMenu.steps < max
    /\ moreOptionsMenu' = [menu EXCEPT !.steps = moreOptionsMenu.steps + 1]

\* the values of usePipelineDataContext and useProjectsContext change
ContextChanges(max, isReadOnly, projectUuid, pipeline) ==
    /\ <<isReadOnly, projectUuid, pipeline>> #
           <<moreOptionsMenu.isReadOnly, moreOptionsMenu.projectUuid,
             moreOptionsMenu.pipeline>>
    /\ MenuStep(max, [moreOptionsMenu EXCEPT !.isReadOnly = isReadOnly,
                                             !.projectUuid = projectUuid,
                                             !.pipeline = pipeline])
    /\ menuEvent' = [type |-> "context"]
    /\ UNCHANGED <<viewportVars, shellVars, importVars, snapshotsVars>>

\* handleOpen, the click on "More options"
handleOpen(max) ==
    /\ ~isOpen(moreOptionsMenu)
    /\ MenuStep(max, [moreOptionsMenu EXCEPT !.anchorElement = TRUE])
    /\ menuEvent' = [type |-> "handleOpen"]
    /\ UNCHANGED <<viewportVars, shellVars, importVars, snapshotsVars>>

\* handleClose as the Menu's onClose
handleClose(max) ==
    /\ isOpen(moreOptionsMenu)
    /\ MenuStep(max, [moreOptionsMenu EXCEPT !.anchorElement = FALSE])
    /\ menuEvent' = [type |-> "handleClose"]
    /\ UNCHANGED <<viewportVars, shellVars, importVars, snapshotsVars>>

\* openSettings, the click on "Pipeline settings"
openSettings(max) ==
    /\ isOpen(moreOptionsMenu)
    /\ moreOptionsMenu.pipeline # ""
    /\ MenuStep(max, [moreOptionsMenu EXCEPT !.anchorElement = FALSE,
                                             !.fullscreenTab = "configuration"])
    /\ menuEvent' = [type |-> "openSettings"]
    /\ UNCHANGED <<viewportVars, shellVars, importVars, snapshotsVars>>

\* showDeletePipelineDialog, the click on "Delete Pipeline": the entry takes
\* clicks only while it is not disabled
showDeletePipelineDialog(max) ==
    /\ isOpen(moreOptionsMenu)
    /\ ~deleteDisabled(moreOptionsMenu)
    /\ MenuStep(max,
          [moreOptionsMenu EXCEPT
              !.anchorElement = FALSE,
              !.confirm =
                  IF returnsEarly(moreOptionsMenu.isReadOnly,
                                  moreOptionsMenu.projectUuid, moreOptionsMenu.pipeline)
                  THEN @
                  ELSE [open |-> TRUE, projectUuid |-> moreOptionsMenu.projectUuid,
                        pipelineUuid |-> moreOptionsMenu.pipeline]])
    /\ menuEvent' = [type |-> "showDeletePipelineDialog",
                     isReadOnly |-> moreOptionsMenu.isReadOnly,
                     projectUuid |-> moreOptionsMenu.projectUuid,
                     pipeline |-> moreOptionsMenu.pipeline,
                     confirm |-> moreOptionsMenu.confirm,
                     requests |-> moreOptionsMenu.requests]
    /\ UNCHANGED <<viewportVars, shellVars, importVars, snapshotsVars>>

\* onConfirm up to its await: deletePipeline(projectUuid, pipeline.uuid) sends
\* DELETE /async/pipelines/{projectUuid}/{pipelineUuid}
onConfirm(max) ==
    /\ moreOptionsMenu.confirm.open
    /\ MenuStep(max,
          [moreOptionsMenu EXCEPT
              !.requests = Append(@, [projectUuid |-> moreOptionsMenu.confirm.projectUuid,
                                      pipelineUuid |-> moreOptionsMenu.confirm.pipelineUuid,
                                      status |-> "pending"])])
    /\ menuEvent' = [type |-> "onConfirm"]
    /\ UNCHANGED <<viewportVars, shellVars, importVars, snapshotsVars>>

\* "Keep pipeline", the confirm dialog's cancel
onCancel(max) ==
    /\ moreOptionsMenu.confirm.open
    /\ MenuStep(max, [moreOptionsMenu EXCEPT !.confirm = NoConfirm])
    /\ menuEvent' = [type |-> "onCancel"]
    /\ UNCHANGED <<viewportVars, shellVars, importVars, snapshotsVars>>

\* onConfirm after its await, the DELETE succeeded: SET_PIPELINES with the
\* filtered list, fetchFileTrees(), resolve(true)
DeletePipelineSucceeds ==
    \E r \in 1..Len(moreOptionsMenu.requests) :
        LET request == moreOptionsMenu.requests[r]
        IN  /\ request.status = "pending"
            /\ moreOptionsMenu' =
                   [moreOptionsMenu EXCEPT
                       !.requests[r].status = "succeeded",
                       !.pipelines = pipelinesWithout(@, request.pipelineUuid),
                       !.fileTreesFetched = TRUE,
                       !.confirm = NoConfirm]
            /\ menuEvent' = [type |-> "deleted", pipelineUuid |-> request.pipelineUuid,
                             pipelines |-> moreOptionsMenu.pipelines]
            /\ UNCHANGED <<viewportVars, shellVars, importVars, snapshotsVars>>

\* onConfirm after its await, the DELETE failed: the await throws and the rest
\* of onConfirm does not run
DeletePipelineFails ==
    \E r \in 1..Len(moreOptionsMenu.requests) :
        LET request == moreOptionsMenu.requests[r]
        IN  /\ request.status = "pending"
            /\ moreOptionsMenu' = [moreOptionsMenu EXCEPT !.requests[r].status = "failed"]
            /\ menuEvent' = [type |-> "failed", pipelineUuid |-> request.pipelineUuid,
                             pipelines |-> moreOptionsMenu.pipelines]
            /\ UNCHANGED <<viewportVars, shellVars, importVars, snapshotsVars>>

-----------------------------------------------------------------------------
(* Specifications *)

\* the viewport after its first render
ViewportMounted ==
    /\ eventVars = [scaleFactor |-> DEFAULT_SCALE_FACTOR, stepSelector |-> FALSE,
                    selectedConnection |-> FALSE, openedStep |-> FALSE]
    /\ pipelineCanvasState =
           [panningState |-> "idle",
            pipelineOffset |-> INITIAL_PIPELINE_POSITION,
            pipelineOrigin |-> Pt(0, 0),
            pipelineStepsHolderOffsetLeft |-> Q(0),
            pipelineStepsHolderOffsetTop |-> Q(0)]
    /\ pipelineOffsetRef = "INITIAL_PIPELINE_POSITION"
    /\ mouseTracker = <<0, 0>>
    /\ newConnection = NoConnection
    /\ dragFile = NoDragFile
    /\ localRef = "node"
    /\ resizeListeners = 1
    /\ viewportSize \in ViewportSizes
    /\ canvasResizeStyle = pipelineSetHolderSize("node", viewportSize, NoStyle)
    /\ emitted = <<>>
    /\ nextUuid = 0
    /\ lastEvent = [type |-> "mount"]
    /\ nEvents = 0

\* the viewport is not rendered
ViewportNotRendered ==
    /\ eventVars = [scaleFactor |-> DEFAULT_SCALE_FACTOR, stepSelector |-> FALSE,
                    selectedConnection |-> FALSE, openedStep |-> FALSE]
    /\ pipelineCanvasState =
           [panningState |-> "idle",
            pipelineOffset |-> INITIAL_PIPELINE_POSITION,
            pipelineOrigin |-> Pt(0, 0),
            pipelineStepsHolderOffsetLeft |-> Q(0),
            pipelineStepsHolderOffsetTop |-> Q(0)]
    /\ pipelineOffsetRef = "INITIAL_PIPELINE_POSITION"
    /\ mouseTracker = <<0, 0>>
    /\ newConnection = NoConnection
    /\ dragFile = NoDragFile
    /\ localRef = "null"
    /\ resizeListeners = 0
    /\ viewportSize = <<800, 600>>
    /\ canvasResizeStyle = NoStyle
    /\ emitted = <<>>
    /\ nextUuid = 0
    /\ lastEvent = [type |-> "none"]
    /\ nEvents = 0

\* the locals of the main thread of shellspawner at the call init(autoconnect)
MainAtInit(pc, autoconnect) ==
    [pc |-> pc, autoconnect |-> autoconnect, action |-> "EXIT",
     auto_chosen |-> FALSE, environment_shells |-> {}, choice |-> None,
     environment_shell |-> None, waited |-> Q(0),
     observed_ready |-> FALSE, exit |-> "running", jupyter_warning |-> FALSE]

\* shellspawner is not running
ShellNotStarted ==
    /\ main = MainAtInit("not started", FALSE)
    /\ threads = <<>>
    /\ serverShells = {}
    /\ requests = {}

\* the import dialog, in the state s of its component
DialogAt(mounted) ==
    [mounted |-> mounted, open |-> FALSE, opened |-> 0, calls |-> 0,
     tempProjectName |-> "", importStatus |-> "READY", newProjectUuid |-> "",
     projectName |-> "", projects |-> {ExistingProject}]

\* the projects view is not rendered
DialogNotRendered ==
    /\ dialog = DialogAt(FALSE)
    /\ backendProjects = {ExistingProject}
    /\ tasks = {}
    /\ importLog = <<>>
    /\ dialogEvent = [type |-> "none"]

\* the snapshots store: create() has run or not, nothing fetched
SnapshotsStoreAt(created) ==
    /\ snapshotsApi = [created |-> created, defined |-> FALSE, snapshots |-> <<>>,
                       pending |-> {}, calls |-> 0]
    /\ snapshotEvent = [type |-> "none"]

\* the pipeline header bar is not rendered
MenuNotRendered ==
    /\ moreOptionsMenu = [rendered |-> FALSE]
    /\ menuEvent = [type |-> "none"]

ClientNotRendered ==
    /\ DialogNotRendered
    /\ SnapshotsStoreAt(FALSE)
    /\ MenuNotRendered

Init == ViewportMounted /\ ShellNotStarted /\ ClientNotRendered

\* shellspawner is started in a terminal of a session: init(autoconnect=True)
InitShell ==
    /\ ViewportNotRendered
    /\ main = MainAtInit("init", TRUE)
    /\ threads = <<>>
    /\ serverShells \in InitialShells
    /\ requests = {}
    /\ ClientNotRendered

\* the projects view is rendered with its import dialog, closed
InitImport ==
    /\ ViewportNotRendered
    /\ ShellNotStarted
    /\ dialog = DialogAt(TRUE)
    /\ backendProjects = {ExistingProject}
    /\ tasks = {}
    /\ importLog = <<>>
    /\ dialogEvent = [type |-> "none"]
    /\ SnapshotsStoreAt(FALSE)
    /\ MenuNotRendered

\* the snapshots store is created
InitSnapshots ==
    /\ ViewportNotRendered
    /\ ShellNotStarted
    /\ DialogNotRendered
    /\ SnapshotsStoreAt(TRUE)
    /\ MenuNotRendered

\* the header bar is rendered for an editable pipeline of a project, menu closed
InitMenu ==
    /\ ViewportNotRendered
    /\ ShellNotStarted
    /\ DialogNotRendered
    /\ SnapshotsStoreAt(FALSE)
    /\ moreOptionsMenu = [rendered |-> TRUE, anchorElement |-> FALSE,
                          isReadOnly |-> FALSE, projectUuid |-> "project-1",
                          pipeline |-> "pipeline-1", pipelines |-> ProjectPipelines,
                          confirm |-> NoConfirm, requests |-> <<>>,
                          fullscreenTab |-> "none", fileTreesFetched |-> FALSE,
                          steps |-> 0]
    /\ menuEvent = [type |-> "none"]

\* Viewport controller: wheel, centerView, centerPipelineOrigin and panning
TransformEvent(max) ==
    \/ \E client \in ClientPoints, deltaMode \in DeltaModes, deltaY \in DeltaYs :
           onPipelineCanvasWheel(max, client, deltaMode, deltaY)
    \/ centerView(max)
    \/ centerPipelineOrigin(max)
    \/ \E delta \in PanDeltas : PanCanvas(max, delta)
    \/ \E p \in PanningStates : SetPanningState(p)

Next == TransformEvent(MaxEvents)

Spec == Init /\ [][Next]_vars

\* Life cycle of the viewport and window resizes, around a few transform events
NextResize ==
    \/ TransformEvent(MaxResizeEvents)
    \/ \E size \in ViewportSizes : WindowResize(size)
    \/ Unmount
    \/ ResizeEffectCleanup
    \/ ResizeEffectRerun
    \/ Mount

SpecResize == Init /\ [][NextResize]_vars

\* Drag-and-drop intake: pointer moves, file drags and the pointer handlers of the
\* viewport, around a few transform events
NextDrop ==
    \/ \E client \in ClientPoints, deltaMode \in DeltaModes, deltaY \in DeltaYs :
           onPipelineCanvasWheel(MaxDropEvents, client, deltaMode, deltaY)
    \/ centerPipelineOrigin(MaxDropEvents)
    \/ \E client \in ClientPoints : MouseMove(client)
    \/ \E paths \in DraggedFiles : StartDragFile(paths)
    \/ ResetDragFile
    \/ \E valid \in SUBSET FilePaths, environments \in Environments :
           onMouseUp(valid, environments)

SpecDrop == Init /\ [][NextDrop]_vars

\* Pointer handlers on a canvas that has been zoomed: wheel events, file drags
\* and the mouse-down and pointer-up handlers of the viewport
NextFrame ==
    \/ \E client \in ClientPoints, deltaY \in DeltaYs :
           onPipelineCanvasWheel(MaxFrameEvents, client, DOM_DELTA_PIXEL, deltaY)
    \/ \E paths \in DraggedFiles : StartDragFile(paths)
    \/ \E button \in Buttons, client \in ClientPoints : onMouseDown(button, client)
    \/ \E environments \in Environments : onMouseUp(FilePaths, environments)

SpecFrame == Init /\ [][NextFrame]_vars

\* Selection and pointer state machine: the pointer handlers of the viewport with
\* the editor state they read
NextPointer ==
    \/ \E p \in PanningStates : SetPanningState(p)
    \/ \E client \in ClientPoints : MouseMove(client)
    \/ \E paths \in DraggedFiles : StartDragFile(paths)
    \/ ResetDragFile
    \/ \E what \in {"selectedConnection", "openedStep", "newConnection"} :
           EditorSets(what)
    \/ \E button \in Buttons, client \in ClientPoints : onMouseDown(button, client)
    \/ \E valid \in SUBSET FilePaths, environments \in Environments :
           onMouseUp(valid, environments)

SpecPointer == Init /\ [][NextPointer]_vars

\* shellspawner: the main thread and the BackgroundRequest threads, interleaved
NextShell ==
    \/ init
    \/ \E action \in Actions : choose_action(action)
    \/ \E environment \in ShellEnvironments \cup {None} :
           choose_environment(environment)
    \/ \E environment_shell \in AllShells \cup {None} :
           choose_existing_environment_shell(environment_shell)
    \/ stop_environment_shell
    \/ spawn_environment_shell
    \/ show_loader
    \/ return_request_result
    \/ connect
    \/ \E returncode \in ReturnCodes : SshEnds(returncode)
    \/ UrlopenRaises
    \/ quit
    \/ \E t \in 1..MaxThreads : BackgroundRequestResult(t)
    \/ \E t \in 1..MaxThreads : BackgroundRequestReady(t)
    \/ \E t \in 1..MaxThreads : BackgroundRequestRaises(t)

SpecShell == InitShell /\ [][NextShell]_vars

\* ImportDialog: the handlers the user can reach and the responses to their
\* requests, interleaved
NextImport ==
    \/ OpenDialog(MaxDialogCalls)
    \/ \E name \in ProjectNames : setProjectName(name)
    \/ \E importUrl \in ImportUrls : startImportGitRepo(MaxDialogCalls, importUrl)
    \/ \E status \in GitImportResults : onFinishedImportingGitRepo(status)
    \/ \E outcome \in {"discovered", "not discovered", "rejected"} :
           onFinishedFetch(outcome)
    \/ uploadFilesAndSetImportStatus(MaxDialogCalls)
    \/ \E ok \in BOOLEAN : createProject(ok)
    \/ \E ok \in BOOLEAN : uploadFiles(ok)
    \/ saveProjectName(MaxDialogCalls)
    \/ \E ok \in BOOLEAN : RenameProject(ok)
    \/ \E ok \in BOOLEAN, reaction \in ParentReactions : FetchProjects(ok, reaction)
    \/ closeDialog(MaxDialogCalls)
    \/ \E ok \in BOOLEAN : DeleteProject(ok)

SpecImport == InitImport /\ [][NextImport]_vars

\* useSnapshotsApi: fetchOne calls and their completions, in any order
NextSnapshots ==
    \/ \E snapshotUuid \in SnapshotUuids, memoized \in BOOLEAN :
           fetchOne(MaxFetches, snapshotUuid, memoized)
    \/ \E version \in SnapshotVersions : fetchOneResolves(version)
    \/ fetchOneRejects

SpecSnapshots == InitSnapshots /\ [][NextSnapshots]_vars

\* PipelineMoreOptionsMenu: clicks, context changes and DELETE responses
NextMenu ==
    \/ \E isReadOnly \in BOOLEAN, projectUuid \in MenuProjectUuids,
          pipeline \in MenuPipelines :
           ContextChanges(MaxMenuEvents, isReadOnly, projectUuid, pipeline)
    \/ handleOpen(MaxMenuEvents)
    \/ handleClose(MaxMenuEvents)
    \/ openSettings(MaxMenuEvents)
    \/ showDeletePipelineDialog(MaxMenuEvents)
    \/ onConfirm(MaxMenuEvents)
    \/ onCancel(MaxMenuEvents)
    \/ DeletePipelineSucceeds
    \/ DeletePipelineFails

SpecMenu == InitMenu /\ [][NextMenu]_vars

-----------------------------------------------------------------------------
(* Properties *)

ScaleInRange(s) == RLe(MinScaleFactor, s) /\ RLe(s, Q(MaxScaleFactor))

Range(seq) == {seq[i] : i \in 1..Len(seq)}
IntentsOf(type) == SelectSeq(emitted, LAMBDA i : i.type = type)

\* the scale requested by the last wheel event, before clamping
RequestedScale ==
    RSub(lastEvent.current,
         Rat(normalizedDeltaY(lastEvent.deltaMode, lastEvent.deltaY), WheelDivisor))

\* C1: the scale factor of the editor and every scale factor dispatched with
\* SET_SCALE_FACTOR lies in [0.25, 2.0]; a wheel event always dispatches
\* SET_SCALE_FACTOR (an out-of-range request is clamped, not rejected) and the
\* dispatched value becomes the scale factor.
C1_ScaleFactorInRange ==
    /\ ScaleInRange(eventVars.scaleFactor)
    /\ \A i \in Range(IntentsOf("SET_SCALE_FACTOR")) : ScaleInRange(i.payload)
    /\ lastEvent.type \in {"wheel", "centerView"} =>
           /\ Len(IntentsOf("SET_SCALE_FACTOR")) = 1
           /\ eventVars.scaleFactor = IntentsOf("SET_SCALE_FACTOR")[1].payload

\* a wheel event whose request (at most 2 - 6000/3000) was below the range
C1_Witness ==
    /\ lastEvent.type = "wheel"
    /\ lastEvent.deltaMode = DOM_DELTA_LINE
    /\ lastEvent.deltaY = 600
    /\ ~ScaleInRange(RequestedScale)
    /\ eventVars.scaleFactor = MinScaleFactor

\* C2: zoom-to-point: on every wheel event at screen point P, the canvas-space
\* point rendered at P after the event is the one rendered at P before it.
C2_ZoomToPoint ==
    [][(lastEvent'.type = "wheel" /\ nEvents' = nEvents + 1) =>
          LET P == <<Q(lastEvent'.client[1]), Q(lastEvent'.client[2])>>
          IN  toCanvasSpace(P, pipelineCanvasState', eventVars'.scaleFactor)
                  = toCanvasSpace(P, pipelineCanvasState, eventVars.scaleFactor)]_vars

\* a second wheel event that changed the scale and moved the origin under the cursor
C2_Witness ==
    /\ lastEvent.type = "wheel"
    /\ nEvents = 2
    /\ lastEvent.current = <<11, 10>>
    /\ eventVars.scaleFactor = <<6, 5>>
    /\ pipelineCanvasState.pipelineOrigin # Pt(0, 0)
    /\ pipelineCanvasState.pipelineStepsHolderOffsetLeft # Q(0)

\* C3: after a wheel event with normalized delta d at scale s, the scale is
\* s - d/3000 limited to [0.25, 2]; s = 1 and a pixel delta of -300 give 1.1.
C3_WheelScale ==
    lastEvent.type = "wheel" =>
        LET d == normalizedDeltaY(lastEvent.deltaMode, lastEvent.deltaY)
            r == RSub(lastEvent.current, Rat(d, 3000))
            expected == IF ~RLe(<<1, 4>>, r) THEN <<1, 4>>
                        ELSE IF ~RLe(r, Q(2)) THEN Q(2) ELSE r
        IN  /\ eventVars.scaleFactor = expected
            /\ (lastEvent.current = Q(1) /\ lastEvent.deltaMode = DOM_DELTA_PIXEL
                    /\ lastEvent.deltaY = -300)
                   => eventVars.scaleFactor = <<11, 10>>

C3_Witness ==
    /\ lastEvent.type = "wheel"
    /\ lastEvent.current = Q(1)
    /\ lastEvent.deltaMode = DOM_DELTA_PIXEL
    /\ lastEvent.deltaY = -300
    /\ eventVars.scaleFactor = <<11, 10>>

\* C4: the clamp of the wheel handler maps every input into [0.25, 2.0] and is
\* idempotent, on a grid of inputs from -1 to 3 and on every scale the wheel
\* handler requests.
ClampInputs == {Rat(n, 8) : n \in -8..24}

C4_ClampIdempotent ==
    \A x \in ClampInputs \cup
             (IF lastEvent.type = "wheel" THEN {RequestedScale} ELSE {}) :
        /\ ScaleInRange(clampScale(x))
        /\ clampScale(clampScale(x)) = clampScale(x)

\* a wheel event whose request was above the range
C4_Witness ==
    /\ lastEvent.type = "wheel"
    /\ ~RLe(RequestedScale, Q(MaxScaleFactor))
    /\ eventVars.scaleFactor = Q(MaxScaleFactor)

\* C5: whenever the scale after a wheel event is strictly inside the range, the
\* delta applied to it is deltaY times the scroll line height for line and page
\* deltas and deltaY itself for pixel deltas.
C5_DeltaNormalization ==
    (/\ lastEvent.type = "wheel"
     /\ eventVars.scaleFactor # MinScaleFactor
     /\ eventVars.scaleFactor # Q(MaxScaleFactor)) =>
        LET applied == RMul(RSub(lastEvent.current, eventVars.scaleFactor),
                            Q(WheelDivisor))
        IN  applied = IF lastEvent.deltaMode \in {1, 2}
                      THEN Q(lastEvent.deltaY * getScrollLineHeight)
                      ELSE Q(lastEvent.deltaY)

\* a page-mode wheel event whose scaled delta was applied unclamped
C5_Witness ==
    /\ lastEvent.type = "wheel"
    /\ lastEvent.deltaMode = DOM_DELTA_PAGE
    /\ lastEvent.deltaY = -300
    /\ lastEvent.current = MinScaleFactor
    /\ eventVars.scaleFactor = <<5, 4>>

\* C6: after centerView() the offset is INITIAL_PIPELINE_POSITION and the scale
\* factor is DEFAULT_SCALE_FACTOR, whatever they were before.
C6_CenterViewResets ==
    lastEvent.type = "centerView" =>
        /\ pipelineCanvasState.pipelineOffset = INITIAL_PIPELINE_POSITION
        /\ eventVars.scaleFactor = DEFAULT_SCALE_FACTOR

\* centerView() from a panned and zoomed canvas
C6_Witness ==
    /\ lastEvent.type = "centerView"
    /\ lastEvent.current # DEFAULT_SCALE_FACTOR
    /\ lastEvent.offset # INITIAL_PIPELINE_POSITION
    /\ pipelineCanvasState.pipelineOffset = INITIAL_PIPELINE_POSITION

\* C7: whenever the offset is INITIAL_PIPELINE_POSITION and the scale factor is
\* DEFAULT_SCALE_FACTOR (the effects of the last render having run), the
\* transform origin is (0,0).
C7_InitialPositionForcesOrigin ==
    (/\ localRef = "node"
     /\ pipelineCanvasState.pipelineOffset = INITIAL_PIPELINE_POSITION
     /\ eventVars.scaleFactor = DEFAULT_SCALE_FACTOR) =>
        pipelineCanvasState.pipelineOrigin = Pt(0, 0)

\* C8: while the viewport element exists the canvas render size is three times
\* the viewport size, after mount and after every resize; a resize handled while
\* the element is missing leaves the render size as it was.
C8_ResizeMultiple ==
    /\ localRef = "node" =>
           canvasResizeStyle = <<3 * viewportSize[1], 3 * viewportSize[2]>>
    /\ (lastEvent.type = "resize" /\ lastEvent.ref = "null") =>
           canvasResizeStyle = lastEvent.style

\* a resize event handled by the listener of a mounted viewport
C8_Witness ==
    /\ lastEvent.type = "resize"
    /\ lastEvent.ref = "node"
    /\ lastEvent.listeners = 1
    /\ canvasResizeStyle # lastEvent.style
    /\ canvasResizeStyle = <<3 * viewportSize[1], 3 * viewportSize[2]>>

AllowedOfLastDrop ==
    {f \in Range(lastEvent.dragFile) : f \in lastEvent.valid}

\* C9: after a pointer-up, the CREATE_STEP intents are one per allowed dragged
\* path (none without a drag or without allowed paths, none for a rejected
\* path), and their uuids are pairwise distinct.
C9_OneStepPerAllowedFile ==
    lastEvent.type = "mouseup" =>
        LET created == IntentsOf("CREATE_STEP")
        IN  /\ Len(created) = Cardinality(AllowedOfLastDrop)
            /\ {created[i].payload.file_path : i \in 1..Len(created)}
                   = {getFilePathForDragFile(f) : f \in AllowedOfLastDrop}
            /\ \A i, j \in 1..Len(created) :
                   created[i].payload.uuid = created[j].payload.uuid => i = j

\* a drop of two files of which one is rejected, after an earlier drop
C9_Witness ==
    /\ lastEvent.type = "mouseup"
    /\ lastEvent.dragFile = <<"a.py", "b.py">>
    /\ lastEvent.valid = {"b.py"}
    /\ Len(IntentsOf("CREATE_STEP")) = 1
    /\ nextUuid = 2

\* C10: every step created by a drop while the pointer is at screen point P has
\* position canvasSpace(P) - (STEP_WIDTH/2, STEP_HEIGHT/2): the centre of the
\* step is rendered at P.
C10_DropCentered ==
    lastEvent.type = "mouseup" =>
        LET P == <<Q(mouseTracker[1]), Q(mouseTracker[2])>>
            half == <<Rat(190, 2), Rat(105, 2)>>
            cs == pipelineCanvasState
            s == eventVars.scaleFactor
            created == IntentsOf("CREATE_STEP")
        IN  \A i \in 1..Len(created) :
                LET position == created[i].payload.meta_data.position
                IN  /\ position = PSub(toCanvasSpace(P, cs, s), half)
                    /\ ScreenOf(PAdd(position, half), cs, s) = P

\* a drop of two files on a zoomed canvas
C10_Witness ==
    /\ lastEvent.type = "mouseup"
    /\ Len(IntentsOf("CREATE_STEP")) = 2
    /\ eventVars.scaleFactor = <<11, 10>>
    /\ mouseTracker = <<40, 70>>
    /\ IntentsOf("CREATE_STEP")[1].payload.meta_data.position
           = IntentsOf("CREATE_STEP")[2].payload.meta_data.position

\* C11: every step created by a drop carries the first environment of the
\* environments list (its uuid, its language as kernel name, its name as kernel
\* display name); with an empty list the steps are still created, one per allowed
\* path, with no environment and the placeholder kernel "python" / "Python"; in
\* both cases parameters and incoming connections are empty and hidden is false.
C11_FirstEnvironmentOrPlaceholder ==
    lastEvent.type = "mouseup" =>
        LET created == IntentsOf("CREATE_STEP")
            environments == lastEvent.environments
        IN  /\ Len(created) = Cardinality(AllowedOfLastDrop)
            /\ \A i \in 1..Len(created) :
                   LET step == created[i].payload
                   IN  /\ step.parameters = <<>>
                       /\ step.incoming_connections = <<>>
                       /\ step.meta_data.hidden = FALSE
                       /\ Len(environments) > 0 =>
                              /\ step.environment = environments[1].uuid
                              /\ step.kernel.name = environments[1].language
                              /\ step.kernel.display_name = environments[1].name
                       /\ Len(environments) = 0 =>
                              /\ step.environment = "undefined"
                              /\ step.kernel = [name |-> "python",
                                                display_name |-> "Python"]

\* a drop of two allowed files while the environments list is empty
C11_Witness ==
    /\ lastEvent.type = "mouseup"
    /\ lastEvent.environments = <<>>
    /\ lastEvent.dragFile = <<"a.py", "b.py">>
    /\ Len(IntentsOf("CREATE_STEP")) = 2
    /\ IntentsOf("CREATE_STEP")[2].payload.kernel.name = "python"

TransformState ==
    <<eventVars.scaleFactor, pipelineCanvasState.pipelineOrigin,
      pipelineCanvasState.pipelineOffset,
      pipelineCanvasState.pipelineStepsHolderOffsetLeft,
      pipelineCanvasState.pipelineStepsHolderOffsetTop>>

\* this step applies again, with the same input, the wheel, centerView or
\* centerPipelineOrigin event that was applied last
RepeatsLastEvent ==
    /\ nEvents' = nEvents + 1
    /\ lastEvent'.type \in {"wheel", "centerView", "centerPipelineOrigin"}
    /\ lastEvent'.type = lastEvent.type
    /\ lastEvent.type = "wheel" =>
           /\ lastEvent'.client = lastEvent.client
           /\ lastEvent'.deltaMode = lastEvent.deltaMode
           /\ lastEvent'.deltaY = lastEvent.deltaY

\* a wheel event with this input moves the scale factor s: its delta is not 0
\* and s is not at the bound the delta pushes to
WheelMovesScale(ev, s) ==
    LET d == normalizedDeltaY(ev.deltaMode, ev.deltaY)
    IN  /\ d # 0
        /\ ~(d > 0 /\ s = MinScaleFactor)
        /\ ~(d < 0 /\ s = Q(MaxScaleFactor))

\* C14 (as stated): applying the same wheel, centerView or centerPipelineOrigin
\* event a second time in a row leaves the Transform State as the first
\* application left it.
C14_EveryUpdateIdempotent ==
    [][RepeatsLastEvent => TransformState' = TransformState]_vars

\* C14 (amended): the same holds of centerView, of centerPipelineOrigin and of a
\* wheel event whose normalised deltaY is 0 or pushes to the bound of the scale
\* range that the scale factor is already at; every other wheel event moves the
\* scale factor again when it is repeated.
C14_IdempotentUnlessWheelMovesScale ==
    [][RepeatsLastEvent =>
          IF lastEvent.type = "wheel" /\ WheelMovesScale(lastEvent, eventVars.scaleFactor)
          THEN eventVars.scaleFactor' # eventVars.scaleFactor
          ELSE TransformState' = TransformState]_vars

\* the canvas zoomed to the upper bound by a wheel event that the clamp absorbs
\* when it is repeated, re-anchored away from the initial position
C14_Witness ==
    /\ lastEvent.type = "wheel"
    /\ lastEvent.current = Q(MaxScaleFactor)
    /\ normalizedDeltaY(lastEvent.deltaMode, lastEvent.deltaY) < 0
    /\ eventVars.scaleFactor = Q(MaxScaleFactor)
    /\ pipelineCanvasState.pipelineOrigin # Pt(0, 0)
    /\ nEvents >= 2

\* C15: in every state at most one window resize listener of the viewport is
\* registered, and exactly one while the viewport is mounted, also after the
\* effect has run again for a new handler; once the cleanup of the unmounted
\* viewport has run none is registered; while a listener is still
\* registered for a viewport that has left the tree, its removal is pending.
C15_OneResizeListener ==
    /\ resizeListeners \in {0, 1}
    /\ localRef = "node" => resizeListeners = 1
    /\ lastEvent.type = "cleanup" => resizeListeners = 0
    /\ lastEvent.type = "rerun" => resizeListeners = 1
    /\ (localRef = "null" /\ resizeListeners > 0) => ENABLED ResizeEffectCleanup

\* the viewport has been unmounted and the cleanup has removed its listener
C15_Witness ==
    /\ lastEvent.type = "cleanup"
    /\ localRef = "null"
    /\ resizeListeners = 0

\* C16: a step of the mouse-down handler or of the pointer-up handler, the file
\* drop included, leaves the Transform State (scale factor, origin, offset,
\* holder offsets) unchanged; only the wheel handler changes it here.
C16_PointerHandlersKeepTransform ==
    [][/\ lastEvent'.type \in {"mousedown", "mouseup"} =>
              TransformState' = TransformState
       /\ TransformState' # TransformState => lastEvent'.type = "wheel"]_vars

\* a file dropped by a pointer-up on a canvas that is zoomed and re-anchored,
\* after a mouse-down that started a selection
C16_Witness ==
    /\ lastEvent.type = "mouseup"
    /\ lastEvent.after = "selection-start"
    /\ Len(IntentsOf("CREATE_STEP")) > 0
    /\ eventVars.scaleFactor # DEFAULT_SCALE_FACTOR
    /\ pipelineCanvasState.pipelineOrigin # Pt(0, 0)

\* C17 (as stated): no thread of control of shellspawner runs besides the main
\* thread, and the script sends no request that creates (POST) or destroys
\* (DELETE) an environment shell.
C17_SingleThreadedNoLifecycle ==
    /\ \A t \in 1..Len(threads) : ~ThreadAlive(t)
    /\ \A r \in requests : r.method \notin {"POST", "DELETE"}

\* C17 (amended): a BackgroundRequest thread runs beside the main thread only
\* while the main thread polls it in show_loader, or after that loader timed out
\* on it; the POST that creates an environment shell is sent by a
\* BackgroundRequest thread and by no other, the DELETE that destroys one by the
\* main thread; every shell of the session that was not there at the start is
\* the result of such a thread.
C17_BackgroundThreadAndLifecycle ==
    /\ \A t \in 1..Len(threads) :
           ThreadAlive(t) =>
               \/ t = CurrentThread /\ main.pc = "show_loader"
               \/ threads[t].loader = "timed out"
    /\ \A r \in requests :
           /\ r.method = "POST" => r.by = "BackgroundRequest"
           /\ r.method = "DELETE" => r.by = "main"
    /\ \A shell \in serverShells :
           \/ shell \in UNION InitialShells
           \/ \E t \in 1..Len(threads) : threads[t].request_result = shell

\* RESTART: the main thread has destroyed a shell and polls the thread that
\* creates the new one
C17_Witness ==
    /\ main.pc = "show_loader"
    /\ main.action = "RESTART"
    /\ ThreadAlive(CurrentThread)
    /\ Request("DELETE", "/environment-shells/", "main") \in requests
    /\ main.waited = <<1, 2>>

\* C18: a mouse-down starts a selection (the tracked pointer becomes the point
\* of the event and CREATE_SELECTOR is dispatched once, with the offset of the
\* canvas as payload) if and only if the button is the primary one and the
\* panning state is idle; otherwise the tracked pointer is left alone and no
\* CREATE_SELECTOR is dispatched.
C18_SelectionStartsIffPrimaryAndIdle ==
    lastEvent.type = "mousedown" =>
        LET selectors == IntentsOf("CREATE_SELECTOR")
        IN  IF lastEvent.button = 0 /\ lastEvent.panningState = "idle"
            THEN /\ mouseTracker = lastEvent.client
                 /\ selectors =
                        <<[type |-> "CREATE_SELECTOR",
                           payload |-> getOffsetCanvas(pipelineCanvasState,
                                                       eventVars.scaleFactor)]>>
            ELSE /\ mouseTracker = lastEvent.mouseTracker
                 /\ selectors = <<>>

\* a primary-button mouse-down while the canvas is being panned, at a point
\* other than the tracked one
C18_Witness ==
    /\ lastEvent.type = "mousedown"
    /\ lastEvent.button = 0
    /\ lastEvent.panningState = "panning"
    /\ lastEvent.client # mouseTracker
    /\ emitted = <<>>

\* C19: every mouse-down that finds a connection selected dispatches
\* DESELECT_CONNECTION, once and as its first intent, whatever the button and
\* the panning state, so before the CREATE_SELECTOR of the same event.
C19_DeselectConnectionFirst ==
    (lastEvent.type = "mousedown" /\ lastEvent.selectedConnection) =>
        /\ Len(IntentsOf("DESELECT_CONNECTION")) = 1
        /\ emitted[1] = [type |-> "DESELECT_CONNECTION"]
        /\ ~eventVars.selectedConnection

\* a primary-button mouse-down with idle panning state on a selected connection:
\* both intents are dispatched
C19_Witness ==
    /\ lastEvent.type = "mousedown"
    /\ lastEvent.selectedConnection
    /\ Len(emitted) = 2
    /\ emitted[2].type = "CREATE_SELECTOR"

\* C20: a pointer-up that finds a new connection pending dispatches
\* REMOVE_CONNECTION once, with that connection as payload; a pointer-up that
\* finds none pending dispatches no REMOVE_CONNECTION.
C20_RemovePendingConnection ==
    lastEvent.type = "mouseup" =>
        IntentsOf("REMOVE_CONNECTION") =
            IF lastEvent.newConnection # NoConnection
            THEN <<[type |-> "REMOVE_CONNECTION", payload |-> lastEvent.newConnection]>>
            ELSE <<>>

\* a pointer-up that ends a selection while connection-2 is pending
C20_Witness ==
    /\ lastEvent.type = "mouseup"
    /\ lastEvent.newConnection = "connection-2"
    /\ lastEvent.stepSelector
    /\ Len(IntentsOf("REMOVE_CONNECTION")) = 1

\* the intents of the Drag-and-Drop Intake for the files of the last pointer-up
IntakeOfLastPointerUp ==
    LET allowed == getApplicableStepFiles(lastEvent.dragFile, lastEvent.valid).allowed
    IN  onDropFiles(lastEvent.dragFile, lastEvent.valid, lastEvent.environments,
                    nextUuid - Len(allowed), mouseTracker, pipelineCanvasState,
                    lastEvent.scaleFactor)

\* C21: a pointer-up while a file is dragged dispatches the intents of the
\* Drag-and-Drop Intake whatever the panning state and whether or not a selection
\* was active, and leaves the step selector inactive; a pointer-up without a
\* dragged file dispatches no intent of the intake.
C21_PointerUpWithDragFileInvokesIntake ==
    lastEvent.type = "mouseup" =>
        IF lastEvent.dragFile # NoDragFile
        THEN /\ pipelineCanvasState.panningState \in PanningStates
             /\ IntentsOf("CREATE_STEP") = IntakeOfLastPointerUp
             /\ ~eventVars.stepSelector
        ELSE IntentsOf("CREATE_STEP") = <<>>

\* a pointer-up with an allowed dragged file, while the canvas is being panned and
\* a selection is active
C21_Witness ==
    /\ lastEvent.type = "mouseup"
    /\ lastEvent.dragFile # NoDragFile
    /\ lastEvent.stepSelector
    /\ pipelineCanvasState.panningState = "panning"
    /\ Len(IntentsOf("CREATE_STEP")) = 1
    /\ ~eventVars.stepSelector

\* the positions of the entries of a type in the log of the import dialog
LogPositions(type) == {i \in 1..Len(importLog) : importLog[i].type = type}

\* C22: a project for which onImportComplete was called is never the target of a
\* DELETE /async/projects request that a later closeDialog sends.
C22_SavedProjectNeverDeleted ==
    \A i \in LogPositions("onImportComplete"), j \in LogPositions("DELETE") :
        i < j => importLog[j].uuid # importLog[i].uuid

\* the user can dismiss the dialog: Dialog onClose or the Cancel button is there
Dismissable ==
    \/ dialog.importStatus = "READY"
    \/ dialog.importStatus = "FILES_STORED" /\ dialog.newProjectUuid # ""

\* C23: an import attempt always ends in a status from which the dialog can be
\* dismissed: while the status is IMPORTING or UPLOADING, or FILES_STORED without
\* a newProjectUuid, a request of the dialog is still awaited whose response
\* moves the dialog on, also after a failed git import, project creation or
\* file upload.
C23_AttemptReachesDismissableStatus ==
    (/\ dialog.mounted
     /\ dialog.importStatus \in {"IMPORTING", "UPLOADING", "FILES_STORED"}
     /\ ~Dismissable)
        => \E task \in tasks :
               task.fn \in {"importGitRepo", "onFinishedImportingGitRepo",
                            "uploadFiles", "closeDialog"}

\* C24: saveProjectName sends the rename request exactly when newProjectUuid is
\* set and the project name validation has no error. onImportComplete is called
\* once for a save whose rename and project refetch both succeeded, right after
\* the refetch, with the name and uuid of the rename request, and the status is
\* then READY. A failed rename or refetch calls nothing and leaves the status
\* FILES_STORED.
C24_SaveProjectNameCompletesOnce ==
    /\ dialogEvent.type = "saveProjectName" =>
           /\ dialogEvent.sends <=>
                  (dialogEvent.newProjectUuid # "" /\ ~dialogEvent.error)
           /\ dialogEvent.sends =>
                  /\ importLog # <<>>
                  /\ importLog[Len(importLog)].type = "PUT"
                  /\ importLog[Len(importLog)].uuid = dialogEvent.newProjectUuid
    /\ \A i \in LogPositions("onImportComplete") :
           /\ i > 1
           /\ importLog[i - 1] =
                  Entry("fetchProjects", importLog[i].uuid, importLog[i].name)
           /\ \E j \in LogPositions("renamed"), k \in LogPositions("PUT") :
                  /\ k < j /\ j < i - 1
                  /\ importLog[j] = Entry("renamed", importLog[i].uuid, importLog[i].name)
                  /\ importLog[k] = Entry("PUT", importLog[i].uuid, importLog[i].name)
    /\ Cardinality(LogPositions("onImportComplete"))
           = Cardinality(LogPositions("fetchProjects"))
    /\ Cardinality(LogPositions("fetchProjects"))
           <= Cardinality(LogPositions("renamed"))
    /\ dialogEvent.type \in {"RenameProject", "FetchProjects"} =>
           IF dialogEvent.type = "FetchProjects" /\ dialogEvent.ok
           THEN /\ Len(importLog) = dialogEvent.log + 2
                /\ importLog[Len(importLog)] =
                       Entry("onImportComplete", dialogEvent.uuid, dialogEvent.name)
                /\ dialogEvent.mounted => dialog.importStatus = "READY"
           ELSE /\ LogPositions("onImportComplete") \subseteq 1..dialogEvent.log
                /\ ~dialogEvent.ok =>
                       /\ Len(importLog) = dialogEvent.log
                       /\ dialogEvent.mounted => dialog.importStatus = "FILES_STORED"

\* a save of the name "renamed" has been completed: onImportComplete was called
\* with it and the dialog is READY again
C24_Witness ==
    /\ dialogEvent.type = "FetchProjects"
    /\ dialogEvent.ok
    /\ dialogEvent.name = "renamed"
    /\ importLog[Len(importLog)].type = "onImportComplete"
    /\ dialog.importStatus = "READY"

\* C25: when a git import finishes with no result or with a FAILURE result, the
\* status becomes READY and newProjectUuid is not set; with a SUCCESS result the
\* status becomes FILES_STORED, and the refetch of the projects that follows sets
\* newProjectUuid, to the uuid of a fetched project whose path is the import
\* result, only if there is one.
C25_GitImportResultSetsStatus ==
    /\ (dialogEvent.type = "onFinishedImportingGitRepo" /\ dialogEvent.mounted) =>
           /\ dialog.newProjectUuid = dialogEvent.newProjectUuid
           /\ dialog.importStatus =
                  IF dialogEvent.status = "SUCCESS" THEN "FILES_STORED" ELSE "READY"
    /\ (dialogEvent.type = "onFinishedFetch" /\ dialogEvent.mounted) =>
           LET found == {p \in dialogEvent.fetchedProjects :
                             p.path = dialogEvent.result}
           IN  IF found = {}
               THEN dialog.newProjectUuid = dialogEvent.newProjectUuid
               ELSE dialog.newProjectUuid \in {p.uuid : p \in found}

\* the refetch after a successful git import has found the imported project
C25_Witness ==
    /\ dialogEvent.type = "onFinishedFetch"
    /\ dialogEvent.outcome = "discovered"
    /\ dialogEvent.newProjectUuid = ""
    /\ dialog.newProjectUuid = "project-1"
    /\ dialog.importStatus = "FILES_STORED"

\* C26: the main thread of shellspawner leaves the ssh session of connect only
\* for the menu (init), calls quit only for EXIT or Ctrl+C at the action menu or
\* for Ctrl+C at the environment choice that was auto-chosen, and the process
\* exits only through quit, with the JupyterLab warning printed and status 0.
C26_ExitsOnlyThroughQuit ==
    [][/\ (main.pc = "subprocess.run" /\ main'.pc # main.pc) => main'.pc = "init"
       /\ (main'.pc = "quit" /\ main.pc # "quit") =>
              \/ main.pc = "choose_action" /\ main'.action \in {"EXIT", "NONE"}
              \/ main.pc = "choose_environment" /\ main.auto_chosen
       /\ (main'.pc = "exited" /\ main.pc # "exited") =>
              /\ main.pc = "quit"
              /\ main'.jupyter_warning
              /\ main'.exit = "sys.exit(0)"]_vars

\* the loader polls at most LoaderTimeout / LoaderSpeed times
LoaderPollsBounded == RLe(main.waited, Q(LoaderTimeout))

\* a thread whose request_ready is true holds the result of its request
ReadyImpliesResult ==
    \A t \in 1..Len(threads) :
        threads[t].request_ready =>
            threads[t].request_result =
                ShellUuid(threads[t].environment, SuffixOfThread(t))

\* C27 (as stated): the loader stops after at most LoaderTimeout / LoaderSpeed
\* polls, a thread seen ready holds its result, and spawn_environment_shell
\* returns None (init re-enters the menu instead of connecting) exactly when
\* the request had not completed when the loader stopped.
C27_ReturnsNoneIffNotCompletedAtLoaderStop ==
    [][/\ LoaderPollsBounded /\ ReadyImpliesResult
       /\ (main.pc = "return_request_result" /\ main'.pc # main.pc) =>
              /\ main'.pc = "init" <=> ~main.observed_ready
              /\ main'.pc = "connect" <=> main.observed_ready]_vars

\* C27 (amended): the loader stops after at most LoaderTimeout / LoaderSpeed
\* polls, a thread seen ready holds its result, and spawn_environment_shell
\* returns None (init re-enters the menu instead of connecting) exactly when
\* request_result is still unassigned when the function reads it at its return:
\* always a result after a loader that saw the thread ready, and after a loader
\* that timed out a result only if the request returned since.
C27_ReturnsNoneIffResultUnassignedAtReturn ==
    [][/\ LoaderPollsBounded /\ ReadyImpliesResult
       /\ (main.pc = "return_request_result" /\ main'.pc # main.pc) =>
              LET t == threads[CurrentThread]
              IN  /\ main'.pc = "init" <=> t.request_result = None
                  /\ main'.pc = "connect" <=> t.request_result # None
                  /\ main'.pc = "connect" => main'.environment_shell = t.request_result
                  /\ main.observed_ready => main'.pc = "connect"
                  /\ (~main.observed_ready /\ main'.pc = "connect") =>
                         /\ t.loader = "timed out"
                         /\ t.state \in {"returned", "ended"}]_vars

\* the loader timed out on a thread that was not ready, the request returned
\* before spawn_environment_shell read the result, and init connects
C27_Witness ==
    /\ main.pc = "connect"
    /\ threads # <<>>
    /\ threads[CurrentThread].loader = "timed out"
    /\ ~main.observed_ready
    /\ main.environment_shell = threads[CurrentThread].request_result
    /\ main.environment_shell # None

\* C28: in the RESTART action the thread that sends the POST for the new shell
\* is started only when the DELETE of the chosen shell has been answered (the
\* shell is gone), the new shell is requested for the environment whose uuid is
\* the uuid of the chosen shell without "-" and its random suffix, and connect is
\* called only with a shell; when no shell is chosen the step back to the menu
\* sends no request and starts no thread.
C28_RestartDeletesThenSpawns ==
    [][/\ (main.action = "RESTART" /\ Len(threads') > Len(threads)) =>
              LET chosen == main.environment_shell
                  environment == threads'[Len(threads')].environment
              IN  /\ Request("DELETE", "/environment-shells/", "main") \in requests
                  /\ chosen \notin serverShells
                  /\ environment \in ShellEnvironments
                  /\ chosen = ShellUuid(environment, chosen[Len(chosen)])
       /\ main'.pc = "connect" => main'.environment_shell # None
       /\ (main.pc = "choose_existing_environment_shell" /\ main'.pc = "init") =>
              /\ requests' = requests
              /\ threads' = threads
              /\ serverShells' = serverShells
       /\ (main.pc = "choose_existing_environment_shell" /\ main.action = "RESTART"
              /\ main'.pc # main.pc) =>
              main'.pc \in {"init", "stop_environment_shell"}]_vars

\* a RESTART of the shell env-2-s2 has been answered with the new shell env-2-t1,
\* and connect is called with it
C28_Witness ==
    /\ main.pc = "connect"
    /\ main.action = "RESTART"
    /\ threads # <<>>
    /\ threads[CurrentThread].environment = <<"env-2">>
    /\ ShellUuid(<<"env-2">>, "s2") \in main.environment_shells
    /\ main.environment_shell = ShellUuid(<<"env-2">>, "t1")
    /\ ShellUuid(<<"env-2">>, "s2") \notin serverShells

\* C29: the snapshots list never holds two entries with the same uuid; a
\* fetchOne that resolves for a uuid in the list puts the fetched snapshot in the
\* place of that entry, one for a uuid not in the list appends it, and every
\* other entry of the list as it was at that moment, with the updates of the
\* calls that resolved before, stays where it was.
C29_ReplaceOrAddKeepsOthers ==
    LET snapshots == SnapshotsOrEmpty(snapshotsApi)
    IN  /\ \A i, j \in 1..Len(snapshots) :
               snapshots[i].uuid = snapshots[j].uuid => i = j
        /\ snapshotEvent.type = "resolved" =>
               LET before == snapshotEvent.snapshots
                   new == snapshotEvent.snapshot
                   at == {i \in 1..Len(before) : before[i].uuid = new.uuid}
               IN  /\ snapshotsApi.defined
                   /\ IF at = {}
                      THEN snapshots = before \o <<new>>
                      ELSE /\ Len(snapshots) = Len(before)
                           /\ \A i \in 1..Len(before) :
                                  snapshots[i] = IF i \in at THEN new ELSE before[i]

\* snapshot-1 was refetched and replaced in place, first of two entries, while
\* another call was pending
C29_Witness ==
    /\ snapshotEvent.type = "resolved"
    /\ Len(snapshotEvent.snapshots) = 2
    /\ snapshotEvent.snapshots[1] = SnapshotData("snapshot-1", 1)
    /\ snapshotEvent.snapshot = SnapshotData("snapshot-1", 2)
    /\ snapshotsApi.snapshots[1] = SnapshotData("snapshot-1", 2)
    /\ snapshotEvent.pending > 1

\* the DELETE requests sent for a pipeline
DeleteRequests(pipelineUuid) ==
    {r \in 1..Len(moreOptionsMenu.requests) :
        moreOptionsMenu.requests[r].pipelineUuid = pipelineUuid}

\* C30: choosing Delete closes the menu; when at that moment the pipeline is
\* read-only or the project uuid or the pipeline is missing, the choice opens no
\* confirm dialog and sends no DELETE; a pipeline is missing from the list only
\* if a DELETE for it has succeeded, a succeeded DELETE removes the entries with
\* its pipeline uuid and no other, and a failed DELETE leaves the list as it was.
C30_DeleteOnlyAfterConfirmedSuccess ==
    /\ menuEvent.type = "showDeletePipelineDialog" =>
           /\ ~isOpen(moreOptionsMenu)
           /\ moreOptionsMenu.requests = menuEvent.requests
           /\ IF menuEvent.isReadOnly \/ menuEvent.projectUuid = ""
                 \/ menuEvent.pipeline = ""
              THEN moreOptionsMenu.confirm = menuEvent.confirm
              ELSE moreOptionsMenu.confirm =
                      [open |-> TRUE, projectUuid |-> menuEvent.projectUuid,
                       pipelineUuid |-> menuEvent.pipeline]
    /\ \A r \in 1..Len(moreOptionsMenu.requests) :
           LET request == moreOptionsMenu.requests[r]
           IN  ~returnsEarly(FALSE, request.projectUuid, request.pipelineUuid)
    /\ \A i \in 1..Len(ProjectPipelines) :
           (\A j \in 1..Len(moreOptionsMenu.pipelines) :
               moreOptionsMenu.pipelines[j] # ProjectPipelines[i])
           => \E r \in DeleteRequests(ProjectPipelines[i]) :
                 moreOptionsMenu.requests[r].status = "succeeded"
    /\ menuEvent.type = "deleted" =>
           LET kept == {i \in 1..Len(menuEvent.pipelines) :
                           menuEvent.pipelines[i] # menuEvent.pipelineUuid}
           IN  /\ Len(moreOptionsMenu.pipelines) = Cardinality(kept)
               /\ \A i \in kept :
                      moreOptionsMenu.pipelines[Cardinality({k \in kept : k <= i})]
                          = menuEvent.pipelines[i]
    /\ menuEvent.type = "failed" => moreOptionsMenu.pipelines = menuEvent.pipelines

\* a first DELETE for pipeline-1 failed and left the list alone, a second one
\* succeeded and removed pipeline-1 only
C30_Witness ==
    /\ menuEvent.type = "deleted"
    /\ menuEvent.pipelineUuid = "pipeline-1"
    /\ menuEvent.pipelines = ProjectPipelines
    /\ moreOptionsMenu.pipelines = <<"pipeline-2">>
    /\ \E r \in DeleteRequests("pipeline-1") :
           moreOptionsMenu.requests[r].status = "failed"
    /\ ~isOpen(moreOptionsMenu)

====
